---- MODULE Spec2Model ----
(***************************************************************************)
(* safetycare: the RTSP stream session (services/rtsp_client.py,           *)
(* RTSPClient), its worker thread (_stream_loop, _connect) and the         *)
(* registry of sessions (RTSPClientManager), as a state machine.           *)
(*                                                                         *)
(* A session is an RTSPClient object.  Its worker is the thread start()    *)
(* creates; the threads that call start(), stop() and the registry's       *)
(* operations are the callers.  One step of the model is one statement     *)
(* (or one run of statements touching a single shared field) of the code,  *)
(* so that the threads interleave where the code lets them.                *)
(***************************************************************************)
EXTENDS Integers, FiniteSets, Sequences, TLC

(* ---- settings (config.py) and literals of rtsp_client.py ---- *)
rtsp_timeout == 10
rtsp_reconnect_delay == 5
DefaultMaxAttempts == 5     \* rtsp_max_reconnect_attempts, the default
SmallMaxAttempts == 2       \* rtsp_max_reconnect_attempts, a deployment's choice
JoinTimeout == 5
MaxDelay == 60
frame_skip == 2
DefaultCooldown == 30       \* fall_alert_cooldown, the default (seconds)
MinCooldown == 5            \* fall_alert_cooldown, the least allowed (ge=5)

(* ---- literals of detection_pipeline.py ---- *)
state_history_maxlen == 30
position_history_maxlen == 15
(* the model's clock ticks twice a second; a time in the code is a number of
   ticks, a duration of d seconds is d * TicksPerSecond ticks *)
TicksPerSecond == 2

(* ---- bounds of the model: the counters of StreamStats stop here ---- *)
MaxDropped == 1
MaxFrames == 1
(* process_frame is called this many times *)
MaxFrameCount == 5
MaxSlowFrameCount == 6
MaxKeypointFrames == 3
MaxRingFrames == 32
MaxIdentityFrames == 4
MaxBoxFrames == 2
MaxNotifyFrames == 4

(* thread slots for workers, caller threads, RTSPClient objects, camera ids *)
Workers == {1, 2}
Callers == {1, 2}
DirectCallers == {1}
Sessions == {1, 2}
Cameras == {"cam1"}
None == "None"

(* StreamState, rtsp_client.py:21-29 *)
StreamState ==
  {"DISCONNECTED", "CONNECTING", "CONNECTED", "STREAMING", "RECONNECTING", "ERROR"}

VARIABLES
  rtsp_max_reconnect_attempts,  \* Settings.rtsp_max_reconnect_attempts
  callback_outcomes,  \* what the consumer's on_frame / on_state_change can do:
                      \* FALSE (return), TRUE (raise an Exception)
  callback_error,     \* history: a callback has raised (logged at 110 or 269)
  state,              \* RTSPClient._state, per session
  error_message,      \* RTSPClient._error_message
  capture,            \* RTSPClient._capture: None or "open"
  running,            \* RTSPClient._running
  thread,             \* RTSPClient._thread: 0 (None) or the worker last created
  frames_dropped,     \* StreamStats.frames_dropped
  frames_received,    \* StreamStats.frames_received
  last_frame,         \* RTSPClient._last_frame: 0 (None) or the number of the frame
  frames_forwarded,   \* history: calls of on_frame(frame, camera_id)
  exists,             \* the RTSPClient object has been constructed
  camera_id,          \* RTSPClient.camera_id
  wpc,                \* per worker thread: its place in _stream_loop
  wsess,              \* per worker thread: the session it runs for (self)
  reconnect_attempts, \* per worker: local reconnect_attempts of _stream_loop
  delay,              \* per worker: local delay of _stream_loop
  failed_connects,    \* history: failed _connect() calls in a row of the worker
  retries,            \* history: backoff waits of the worker since its last connect
  cpc,                \* per caller thread: its place in start/stop/registry code
  csess,              \* per caller: the session (self/client) it operates on,
                      \* 0 outside a call
  cret,               \* per caller: where the stop() in progress returns to
  ccam,               \* per caller: the camera_id argument of its registry call
  ctodo,              \* per caller: stop_all's clients still to be stopped
  clients,            \* RTSPClientManager._clients: camera id -> session, 0: no entry
  lock,               \* RTSPClientManager._lock: 0 (free) or the caller holding it
  replaced_by,        \* history: the session that create_client put in its place
  removed,            \* history, per camera id: -1, or what the last
                      \* remove_client since the last create_client found:
                      \* 0 (no entry) or the session it deleted
  stopped,            \* history: stop() has returned on the session
  \* the session's fields at the grain of single statements (LockSpec)
  slock,              \* RTSPClient._lock: "free" or the thread holding it
  lpc,                \* the worker's place inside _set_state / the frame update
  lpend,              \* the arguments (state, error) of the _set_state under way
  lstop,              \* the place in _set_state of a thread whose stop() did
                      \* not see the worker end within the join of line 135
  rpc,                \* a reading thread's place in get_all_stats / last_frame
  seen_state,         \* what the reader read from client.state
  seen_error,         \* what the reader read from client.error_message
  seen_frame,         \* what the reader read from client.last_frame
  \* the detection pipeline (services/detection_pipeline.py)
  fall_alert_cooldown,  \* Settings.fall_alert_cooldown, seconds
  now,                \* time.time(), in ticks of 1/TicksPerSecond seconds
  frame_count,        \* DetectionPipeline.frame_count
  next_person_id,     \* DetectionPipeline._next_person_id
  person_trackers,    \* DetectionPipeline.person_trackers: key -> PersonTracker
  persons,            \* DetectionResult.persons of the last process_frame
  detection_result,   \* the other fields of the DetectionResult that the last
                      \* process_frame returned; none before the first call
                      \* and when the call raised
  last_timestamp_ms,  \* DetectionPipeline._last_timestamp_ms
  passed_ms,          \* history: per camera, the timestamp detect_for_video
                      \* got with the last frame of that camera
  pose_landmarks,     \* pose_results.pose_landmarks of the last frame, where
                      \* the frame is given by its keypoints
  bounding_boxes,     \* the x, y, width and height that line 451 gave to
                      \* BoundingBox(...) for the poses of that frame, in order
  angle_arg,          \* the body_angle argument of a call of _classify_state
  classified,         \* what that call returned: <<state, confidence>>
  \* the notifier (services/telegram_notifier.py) and the stream consumers
  last_alert_times,   \* TelegramNotifier._last_alert_times: camera -> time
  send_pc,            \* per stream consumer: "idle", or "sending" while it
                      \* awaits send_photo inside send_fall_alert
  alerts_sent         \* history, per camera: the times at which a send of
                      \* send_fall_alert came back successful

sessVars == <<state, error_message, capture, running, thread, frames_dropped,
              frames_received, last_frame, frames_forwarded,
              exists, camera_id>>
workerVars == <<wpc, wsess, reconnect_attempts, delay, failed_connects, retries>>
callerVars == <<cpc, csess, cret, ccam, ctodo>>
regVars == <<clients, lock, replaced_by, removed, stopped>>
lockVars == <<slock, lpc, lpend, lstop, rpc, seen_state, seen_error, seen_frame>>
geomVars == <<pose_landmarks, bounding_boxes, angle_arg, classified>>
notifyVars == <<last_alert_times, send_pc, alerts_sent>>
detVars == <<fall_alert_cooldown, now, frame_count, next_person_id,
             person_trackers, persons, detection_result, last_timestamp_ms,
             passed_ms, geomVars, notifyVars>>
(* what the actions of start/stop, the worker and the registry leave alone:
   the settings, the consumer, and the variables of the other components *)
envVars == <<rtsp_max_reconnect_attempts, callback_outcomes, lockVars, detVars>>
vars == <<envVars, callback_error, sessVars, workerVars, callerVars, regVars>>
(* what the statement-grain actions of LockSpec leave alone *)
lockFrame == <<rtsp_max_reconnect_attempts, callback_outcomes, callback_error,
               capture, running, thread, frames_dropped, exists, camera_id,
               workerVars, callerVars, regVars, detVars>>
(* what process_frame leaves alone: the sessions and their registry *)
rtspVars == <<rtsp_max_reconnect_attempts, callback_outcomes, lockVars,
              callback_error, sessVars, workerVars, callerVars, regVars>>

(* ---- pure helpers ---- *)
Min(a, b) == IF a <= b THEN a ELSE b

RECURSIVE Pow2(_)
Pow2(n) == IF n <= 0 THEN 1 ELSE 2 * Pow2(n - 1)

(* lines 211-214 without the min(..., 60) *)
BackoffDelay_uncapped(attempts) == rtsp_reconnect_delay * Pow2(attempts)

(* rtsp_client.py:211-214: min(rtsp_reconnect_delay * 2 ** attempts, 60) *)
BackoffDelay(attempts) == Min(rtsp_reconnect_delay * Pow2(attempts), MaxDelay)

(* the comparison of line 202 off by one: one attempt too many *)
MaxAttemptsReached_late(attempts) == attempts > rtsp_max_reconnect_attempts

(* rtsp_client.py:202 *)
MaxAttemptsReached(attempts) == attempts >= rtsp_max_reconnect_attempts

(* rtsp_client.py:201 *)
NeedsConnect(st) == st \notin {"CONNECTED", "STREAMING"}

(* threading.Thread.is_alive() of a worker thread *)
Alive(w) == wpc[w] \notin {"unborn", "done"}

(* rtsp_client.py:134: self._thread and self._thread.is_alive() *)
ThreadAlive(s) ==
  /\ thread[s] # 0
  /\ wsess[thread[s]] = s
  /\ Alive(thread[s])

(* The worker sits in a call that outlasts join(timeout=5.0): the backoff
   time.sleep(delay) of line 219 when delay > 5, or the connection test of
   lines 171-185, which runs for rtsp_timeout seconds. *)
Blocked(w) ==
  \/ wpc[w] = "sleep" /\ delay[w] > JoinTimeout
  \/ wpc[w] = "poll" /\ rtsp_timeout > JoinTimeout

(* The workers of a session that are executing _stream_loop *)
LiveWorkers(s) == {w \in Workers : wsess[w] = s /\ Alive(w)}

(* A worker slot no thread uses: threading.Thread(...) takes it *)
FreeWorkers == {w \in Workers : ~Alive(w)}

(* rtsp_client.py:101-112: the two assignments, then on_state_change(state,
   error) inside try/except Exception: a raise is logged and goes no further *)
set_state_with(s, st, err, raised) ==
  /\ state' = [state EXCEPT ![s] = st]
  /\ error_message' = [error_message EXCEPT ![s] = err]
  /\ callback_error' = (callback_error \/ raised)

(* rtsp_client.py:101-112, whatever the callback does *)
set_state(s, st, err) ==
  \E raised \in callback_outcomes : set_state_with(s, st, err, raised)

(* rtsp_client.py:142-149 *)
cleanup_capture(s) == capture' = [capture EXCEPT ![s] = None]

(* an optional value (float | None): <<>> is None, <<x>> is the value x *)
NoValue == <<>>
Some(x) == <<x>>

(* the cameras whose frames reach the pipeline, and the identities of tracked
   persons: f"{camera_id}_person_{person_idx}" (391) *)
PipelineCameras == {"cam1", "cam2"}
PersonSlots == {0, 1}
TrackerKeys == PipelineCameras \X PersonSlots

(* the stream consumers (api/stream.py 40-96, 163-365) of camera "cam1": each
   is a coroutine of the one event loop *)
Consumers == {1, 2}

(* PersonTracker() as the dataclass builds it (114-119); person_id 0 stands
   for a key that is not in the person_trackers dict *)
PersonTracker(id) ==
  [person_id |-> id,
   state_history |-> <<>>,
   position_history |-> <<>>,
   last_standing_time |-> 0,
   fall_detected_time |-> NoValue,
   fall_cooldown_until |-> 0]

(* DetectionPipeline.__init__ (231-235); the clock starts at tick 0 *)
DetInit ==
  /\ now = 0
  /\ frame_count = 0
  /\ next_person_id = 0
  /\ person_trackers = [k \in TrackerKeys |-> PersonTracker(0)]
  /\ persons = <<>>
  /\ detection_result = NoValue
  /\ last_timestamp_ms = 0
  /\ passed_ms = [camera \in PipelineCameras |-> NoValue]
  /\ pose_landmarks = <<>>
  /\ bounding_boxes = <<>>
  /\ angle_arg = NoValue
  /\ classified = NoValue
  /\ last_alert_times = [camera \in PipelineCameras |-> NoValue]
  /\ send_pc = [c \in Consumers |-> "idle"]
  /\ alerts_sent = [camera \in PipelineCameras |-> <<>>]

(* api/stream.py:29, main.py:24: _detection_pipeline and telegram_notifier are
   None until a stream consumer asks for them; the clock starts at tick 0 *)
NoPipeline ==
  /\ now = 0
  /\ frame_count = 0
  /\ next_person_id = 0
  /\ person_trackers = NoValue
  /\ persons = NoValue
  /\ detection_result = NoValue
  /\ last_timestamp_ms = 0
  /\ passed_ms = NoValue
  /\ pose_landmarks = NoValue
  /\ bounding_boxes = NoValue
  /\ angle_arg = NoValue
  /\ classified = NoValue
  /\ last_alert_times = NoValue
  /\ send_pc = NoValue
  /\ alerts_sent = NoValue

(* ---- initial state: RTSPClient.__init__ (65-78), RTSPClientManager.__init__ ---- *)
InitCommon ==
  /\ state = [s \in Sessions |-> "DISCONNECTED"]
  /\ error_message = [s \in Sessions |-> None]
  /\ capture = [s \in Sessions |-> None]
  /\ running = [s \in Sessions |-> FALSE]
  /\ thread = [s \in Sessions |-> 0]
  /\ frames_dropped = [s \in Sessions |-> 0]
  /\ frames_received = [s \in Sessions |-> 0]
  /\ last_frame = [s \in Sessions |-> 0]
  /\ frames_forwarded = [s \in Sessions |-> 0]
  /\ callback_error = FALSE
  /\ slock = "free"
  /\ lpc = "loop"
  /\ lpend = <<"DISCONNECTED", None>>
  /\ rpc = "idle"
  /\ seen_state = "DISCONNECTED"
  /\ seen_error = None
  /\ seen_frame = 0
  /\ lstop = "idle"
  /\ wpc = [w \in Workers |-> "unborn"]
  /\ wsess = [w \in Workers |-> 1]
  /\ reconnect_attempts = [w \in Workers |-> 0]
  /\ delay = [w \in Workers |-> 0]
  /\ failed_connects = [w \in Workers |-> 0]
  /\ retries = [w \in Workers |-> 0]
  /\ cpc = [c \in Callers |-> "idle"]
  /\ csess = [c \in Callers |-> 0]
  /\ cret = [c \in Callers |-> "idle"]
  /\ lock = 0
  /\ ccam = [c \in Callers |-> "cam1"]
  /\ ctodo = [c \in Callers |-> {}]
  /\ replaced_by = [s \in Sessions |-> 0]
  /\ removed = [k \in Cameras |-> -1]
  /\ stopped = [s \in Sessions |-> FALSE]

(* One session, constructed and registered for its camera *)
SessionInit ==
  /\ InitCommon
  /\ rtsp_max_reconnect_attempts = DefaultMaxAttempts
  /\ callback_outcomes = {FALSE}
  /\ fall_alert_cooldown = DefaultCooldown
  /\ exists = [s \in Sessions |-> s = 1]
  /\ camera_id = [s \in Sessions |-> IF s = 1 THEN "cam1" ELSE None]
  /\ clients = [k \in Cameras |-> 1]

(* The session before any stream consumer has asked for the pipeline *)
Init ==
  /\ SessionInit
  /\ NoPipeline

(* The session and the pipeline that get_detection_pipeline (api/stream.py
   32-37) has constructed for the first consumer *)
PipelineInit ==
  /\ SessionInit
  /\ DetInit

(* ---- the worker: RTSPClient._stream_loop and _connect ---- *)

(* 199: while self._running *)
LoopHead(w) ==
  /\ wpc[w] = "L199"
  /\ wpc' = [wpc EXCEPT ![w] = IF running[wsess[w]] THEN "L201" ELSE "exit"]
  /\ UNCHANGED <<sessVars, wsess, reconnect_attempts, delay, failed_connects, retries>>
  /\ UNCHANGED <<callerVars, regVars>>
  /\ UNCHANGED <<envVars, callback_error>>

(* 201-207: not connected and the attempts are used up: ERROR, break *)
GiveUp(w) ==
  /\ wpc[w] = "L201"
  /\ NeedsConnect(state[wsess[w]])
  /\ MaxAttemptsReached(reconnect_attempts[w])
  /\ set_state(wsess[w], "ERROR", "max_attempts")
  /\ wpc' = [wpc EXCEPT ![w] = "exit"]
  /\ UNCHANGED <<capture, running, thread, frames_dropped, frames_received,
                 last_frame, frames_forwarded, exists, camera_id>>
  /\ UNCHANGED <<wsess, reconnect_attempts, delay, failed_connects, retries>>
  /\ UNCHANGED <<callerVars, regVars>>
  /\ UNCHANGED envVars

(* 209-218: a retry: RECONNECTING, compute the delay, go to sleep *)
BeginBackoff(w) ==
  /\ wpc[w] = "L201"
  /\ NeedsConnect(state[wsess[w]])
  /\ ~MaxAttemptsReached(reconnect_attempts[w])
  /\ reconnect_attempts[w] > 0
  /\ set_state(wsess[w], "RECONNECTING", None)
  /\ delay' = [delay EXCEPT ![w] = BackoffDelay(reconnect_attempts[w])]
  /\ retries' = [retries EXCEPT ![w] = @ + 1]
  /\ wpc' = [wpc EXCEPT ![w] = "sleep"]
  /\ UNCHANGED <<capture, running, thread, frames_dropped, frames_received,
                 last_frame, frames_forwarded, exists, camera_id>>
  /\ UNCHANGED <<wsess, reconnect_attempts, failed_connects>>
  /\ UNCHANGED <<callerVars, regVars>>
  /\ UNCHANGED envVars

(* 201, 209, 222: the first attempt goes straight to _connect() *)
FirstAttempt(w) ==
  /\ wpc[w] = "L201"
  /\ NeedsConnect(state[wsess[w]])
  /\ ~MaxAttemptsReached(reconnect_attempts[w])
  /\ reconnect_attempts[w] = 0
  /\ wpc' = [wpc EXCEPT ![w] = "connect"]
  /\ UNCHANGED <<sessVars, wsess, reconnect_attempts, delay, failed_connects, retries>>
  /\ UNCHANGED <<callerVars, regVars>>
  /\ UNCHANGED <<envVars, callback_error>>

(* 201, 230: CONNECTED or STREAMING: go on to read a frame *)
SkipConnect(w) ==
  /\ wpc[w] = "L201"
  /\ ~NeedsConnect(state[wsess[w]])
  /\ wpc' = [wpc EXCEPT ![w] = "read"]
  /\ UNCHANGED <<sessVars, wsess, reconnect_attempts, delay, failed_connects, retries>>
  /\ UNCHANGED <<callerVars, regVars>>
  /\ UNCHANGED <<envVars, callback_error>>

(* 219-222: time.sleep(delay) returns; _connect() is called without a new
   look at self._running *)
Wake(w) ==
  /\ wpc[w] = "sleep"
  /\ wpc' = [wpc EXCEPT ![w] = "connect"]
  /\ delay' = [delay EXCEPT ![w] = 0]   \* not read again before line 211 sets it
  /\ UNCHANGED <<sessVars, wsess, reconnect_attempts, failed_connects, retries>>
  /\ UNCHANGED <<callerVars, regVars>>
  /\ UNCHANGED <<envVars, callback_error>>

(* _connect 157-168: CONNECTING, drop the old capture, open a new one *)
ConnectBegin(w) ==
  /\ wpc[w] = "connect"
  /\ set_state(wsess[w], "CONNECTING", None)
  /\ capture' = [capture EXCEPT ![wsess[w]] = "open"]
  /\ wpc' = [wpc EXCEPT ![w] = "poll"]
  /\ UNCHANGED <<running, thread, frames_dropped, frames_received, last_frame, frames_forwarded,
                 exists, camera_id>>
  /\ UNCHANGED <<wsess, reconnect_attempts, delay, failed_connects, retries>>
  /\ UNCHANGED <<callerVars, regVars>>
  /\ UNCHANGED envVars

(* _connect 172-182: a frame arrives within rtsp_timeout: CONNECTED, True *)
ConnectOk(w) ==
  /\ wpc[w] = "poll"
  /\ capture[wsess[w]] # None
  /\ set_state(wsess[w], "CONNECTED", None)
  /\ failed_connects' = [failed_connects EXCEPT ![w] = 0]
  /\ retries' = [retries EXCEPT ![w] = 0]
  /\ wpc' = [wpc EXCEPT ![w] = "L226"]
  /\ UNCHANGED <<capture, running, thread, frames_dropped, frames_received,
                 last_frame, frames_forwarded, exists, camera_id>>
  /\ UNCHANGED <<wsess, reconnect_attempts, delay>>
  /\ UNCHANGED <<callerVars, regVars>>
  /\ UNCHANGED envVars

(* _connect 185-192 and 222-224: timeout or exception: ERROR, release, False;
   the loop counts the attempt and continues *)
ConnectFail(w) ==
  /\ wpc[w] = "poll"
  /\ set_state(wsess[w], "ERROR", "connect_failed")
  /\ cleanup_capture(wsess[w])
  /\ reconnect_attempts' = [reconnect_attempts EXCEPT ![w] = @ + 1]
  /\ failed_connects' = [failed_connects EXCEPT ![w] = @ + 1]
  /\ wpc' = [wpc EXCEPT ![w] = "L199"]
  /\ UNCHANGED <<running, thread, frames_dropped, frames_received, last_frame, frames_forwarded,
                 exists, camera_id>>
  /\ UNCHANGED <<wsess, delay, retries>>
  /\ UNCHANGED <<callerVars, regVars>>
  /\ UNCHANGED envVars

(* 226-227: reconnect_attempts = 0; STREAMING *)
BeginStreaming(w) ==
  /\ wpc[w] = "L226"
  /\ set_state(wsess[w], "STREAMING", None)
  /\ reconnect_attempts' = [reconnect_attempts EXCEPT ![w] = 0]
  /\ wpc' = [wpc EXCEPT ![w] = "read"]
  /\ UNCHANGED <<capture, running, thread, frames_dropped, frames_received,
                 last_frame, frames_forwarded, exists, camera_id>>
  /\ UNCHANGED <<wsess, delay, failed_connects, retries>>
  /\ UNCHANGED <<callerVars, regVars>>
  /\ UNCHANGED envVars

(* 230-231: no capture: continue *)
ReadNoCapture(w) ==
  /\ wpc[w] = "read"
  /\ capture[wsess[w]] = None
  /\ wpc' = [wpc EXCEPT ![w] = "L199"]
  /\ UNCHANGED <<sessVars, wsess, reconnect_attempts, delay, failed_connects, retries>>
  /\ UNCHANGED <<callerVars, regVars>>
  /\ UNCHANGED <<envVars, callback_error>>

(* 230, 233: there is a capture: on to self._capture.read() *)
HaveCapture(w) ==
  /\ wpc[w] = "read"
  /\ capture[wsess[w]] # None
  /\ wpc' = [wpc EXCEPT ![w] = "L234"]
  /\ UNCHANGED <<sessVars, wsess, reconnect_attempts, delay, failed_connects, retries>>
  /\ UNCHANGED <<callerVars, regVars>>
  /\ UNCHANGED <<envVars, callback_error>>

(* 266-269 without the try/except: what on_frame raises leaves the block *)
frame_callback_escapes_uncaught(raised) == raised

(* 266-269: on_frame is called inside try/except Exception: nothing leaves it *)
frame_callback_escapes(raised) == FALSE

(* 272-273: frame_skip > 0 and frames_received % (frame_skip + 1) != 0 *)
SkipFrame(n) == frame_skip > 0 /\ n % (frame_skip + 1) # 0

(* 234, 243-274: a frame is read: statistics (256), the latest-frame slot
   (261-262), on_frame (265-269), the frame-skip test (272-274); `raised`
   is what on_frame does *)
ReadOkWith(w, raised) ==
  /\ wpc[w] = "L234"
  /\ capture[wsess[w]] # None
  /\ frames_received[wsess[w]] < MaxFrames
  /\ LET s == wsess[w]
         n == frames_received[wsess[w]] + 1
     IN /\ frames_received' = [frames_received EXCEPT ![s] = n]
        /\ last_frame' = [last_frame EXCEPT ![s] = n]
        /\ frames_forwarded' = [frames_forwarded EXCEPT ![s] = @ + 1]
        /\ callback_error' = (callback_error \/ raised)
        /\ IF frame_callback_escapes(raised)
             THEN \* the handler of 276-279
                  /\ cleanup_capture(s)
                  /\ reconnect_attempts' = [reconnect_attempts EXCEPT ![w] = @ + 1]
             ELSE UNCHANGED <<capture, reconnect_attempts>>
        \* 274: continue, or the end of the loop body: line 199 either way
        /\ wpc' = [wpc EXCEPT ![w] = IF SkipFrame(n) THEN "L199" ELSE "L199"]
  /\ UNCHANGED <<state, error_message, running, thread, frames_dropped,
                 exists, camera_id>>
  /\ UNCHANGED <<wsess, delay, failed_connects, retries>>
  /\ UNCHANGED <<callerVars, regVars>>
  /\ UNCHANGED envVars

ReadOk(w) == \E raised \in callback_outcomes : ReadOkWith(w, raised)

(* 236-241: the read fails: frames_dropped, release, count, continue.
   The state is left as it is. *)
ReadFail(w) ==
  /\ wpc[w] = "L234"
  /\ capture[wsess[w]] # None
  /\ frames_dropped[wsess[w]] < MaxDropped
  /\ frames_dropped' = [frames_dropped EXCEPT ![wsess[w]] = @ + 1]
  /\ cleanup_capture(wsess[w])
  /\ reconnect_attempts' = [reconnect_attempts EXCEPT ![w] = @ + 1]
  /\ wpc' = [wpc EXCEPT ![w] = "L199"]
  /\ UNCHANGED <<state, error_message, running, thread, frames_received,
                 last_frame, frames_forwarded, exists, camera_id>>
  /\ UNCHANGED <<wsess, delay, failed_connects, retries>>
  /\ UNCHANGED <<callerVars, regVars>>
  /\ UNCHANGED <<envVars, callback_error>>

(* 234, 276-279: self._capture was set to None by another thread since line
   230: the call raises; release (nothing to release), count, loop *)
ReadRaise(w) ==
  /\ wpc[w] = "L234"
  /\ capture[wsess[w]] = None
  /\ reconnect_attempts[w] < rtsp_max_reconnect_attempts  \* the count stops here
  /\ cleanup_capture(wsess[w])
  /\ reconnect_attempts' = [reconnect_attempts EXCEPT ![w] = @ + 1]
  /\ wpc' = [wpc EXCEPT ![w] = "L199"]
  /\ UNCHANGED <<state, error_message, running, thread, frames_dropped,
                 frames_received, last_frame, frames_forwarded, exists, camera_id>>
  /\ UNCHANGED <<wsess, delay, failed_connects, retries>>
  /\ UNCHANGED <<callerVars, regVars>>
  /\ UNCHANGED <<envVars, callback_error>>

(* 281-283: cleanup on exit: release, DISCONNECTED; the thread ends *)
Exit(w) ==
  /\ wpc[w] = "exit"
  /\ cleanup_capture(wsess[w])
  /\ set_state(wsess[w], "DISCONNECTED", None)
  /\ wpc' = [wpc EXCEPT ![w] = "done"]
  /\ reconnect_attempts' = [reconnect_attempts EXCEPT ![w] = 0]  \* the locals
  /\ delay' = [delay EXCEPT ![w] = 0]                            \* end with
  /\ failed_connects' = [failed_connects EXCEPT ![w] = 0]        \* the thread
  /\ retries' = [retries EXCEPT ![w] = 0]
  /\ UNCHANGED <<running, thread, frames_dropped, frames_received, last_frame, frames_forwarded,
                 exists, camera_id>>
  /\ UNCHANGED wsess
  /\ UNCHANGED <<callerVars, regVars>>
  /\ UNCHANGED envVars

WorkerStep(w) ==
  \/ LoopHead(w)
  \/ GiveUp(w)
  \/ BeginBackoff(w)
  \/ FirstAttempt(w)
  \/ SkipConnect(w)
  \/ Wake(w)
  \/ ConnectBegin(w)
  \/ ConnectOk(w)
  \/ ConnectFail(w)
  \/ BeginStreaming(w)
  \/ ReadNoCapture(w)
  \/ HaveCapture(w)
  \/ ReadOk(w)
  \/ ReadFail(w)
  \/ ReadRaise(w)
  \/ Exit(w)

(* ---- RTSPClient.start and RTSPClient.stop, run by a caller thread ---- *)

(* 120: start() is called; if self._running *)
StartCheck(c, s) ==
  /\ cpc[c] = "idle"
  /\ exists[s]
  /\ cpc' = [cpc EXCEPT ![c] = IF running[s] THEN "s121" ELSE "s124"]
  /\ csess' = [csess EXCEPT ![c] = s]
  /\ UNCHANGED <<sessVars, workerVars, cret, ccam, ctodo, regVars>>
  /\ UNCHANGED <<envVars, callback_error>>

(* 121-122: already running: return False *)
StartRefused(c) ==
  /\ cpc[c] = "s121"
  /\ cpc' = [cpc EXCEPT ![c] = "idle"]
  /\ csess' = [csess EXCEPT ![c] = 0]
  /\ UNCHANGED <<sessVars, workerVars, cret, ccam, ctodo, regVars>>
  /\ UNCHANGED <<envVars, callback_error>>

(* 124-128: self._running = True; a new thread runs _stream_loop; return True *)
StartThread(c) ==
  /\ cpc[c] = "s124"
  /\ FreeWorkers # {}
  /\ LET s == csess[c]
         w == CHOOSE x \in FreeWorkers : \A y \in FreeWorkers : x <= y
     IN /\ running' = [running EXCEPT ![s] = TRUE]
        /\ thread' = [thread EXCEPT ![s] = w]
        /\ wpc' = [wpc EXCEPT ![w] = "L199"]
        /\ wsess' = [wsess EXCEPT ![w] = s]
  /\ cpc' = [cpc EXCEPT ![c] = "idle"]
  /\ csess' = [csess EXCEPT ![c] = 0]
  /\ UNCHANGED <<state, error_message, capture, frames_dropped, frames_received,
                 last_frame, frames_forwarded, exists, camera_id>>
  /\ UNCHANGED <<reconnect_attempts, delay, failed_connects, retries>>
  /\ UNCHANGED <<cret, ccam, ctodo, regVars>>
  /\ UNCHANGED <<envVars, callback_error>>

(* 132: self._running = False, for a stop() that returns to `ret` *)
stop_begin(c, s, ret) ==
  /\ running' = [running EXCEPT ![s] = FALSE]
  /\ cpc' = [cpc EXCEPT ![c] = "p134"]
  /\ csess' = [csess EXCEPT ![c] = s]
  /\ cret' = [cret EXCEPT ![c] = ret]
  /\ UNCHANGED <<state, error_message, capture, thread, frames_dropped,
                 frames_received, last_frame, frames_forwarded, exists, camera_id>>
  /\ UNCHANGED workerVars

(* 130-132: stop() is called on a session the caller holds *)
StopBegin(c, s) ==
  /\ cpc[c] = "idle"
  /\ exists[s]
  /\ stop_begin(c, s, "idle")
  /\ UNCHANGED <<ccam, ctodo, regVars>>
  /\ UNCHANGED <<envVars, callback_error>>

(* 134-135: no live thread, or join() returns because the thread has ended *)
JoinDone(c) ==
  /\ cpc[c] = "p134"
  /\ ~ThreadAlive(csess[c])
  /\ cpc' = [cpc EXCEPT ![c] = "p137"]
  /\ UNCHANGED <<sessVars, workerVars, csess, cret, ccam, ctodo, regVars>>
  /\ UNCHANGED <<envVars, callback_error>>

(* 135: join(timeout=5.0) returns with the thread still alive *)
JoinTimedOut(c) ==
  /\ cpc[c] = "p134"
  /\ ThreadAlive(csess[c])
  /\ Blocked(thread[csess[c]])
  /\ cpc' = [cpc EXCEPT ![c] = "p137"]
  /\ UNCHANGED <<sessVars, workerVars, csess, cret, ccam, ctodo, regVars>>
  /\ UNCHANGED <<envVars, callback_error>>

(* 137: self._cleanup_capture() *)
StopCleanup(c) ==
  /\ cpc[c] = "p137"
  /\ cleanup_capture(csess[c])
  /\ cpc' = [cpc EXCEPT ![c] = "p138"]
  /\ UNCHANGED <<state, error_message, running, thread, frames_dropped,
                 frames_received, last_frame, frames_forwarded, exists, camera_id>>
  /\ UNCHANGED <<workerVars, csess, cret, ccam, ctodo, regVars>>
  /\ UNCHANGED <<envVars, callback_error>>

(* 138, 103-104: self._set_state(DISCONNECTED) assigns state and error *)
StopSetState(c) ==
  /\ cpc[c] = "p138"
  /\ set_state(csess[c], "DISCONNECTED", None)
  /\ cpc' = [cpc EXCEPT ![c] = "p140"]
  /\ UNCHANGED <<capture, running, thread, frames_dropped, frames_received,
                 last_frame, frames_forwarded, exists, camera_id>>
  /\ UNCHANGED <<workerVars, csess, cret, ccam, ctodo, regVars>>
  /\ UNCHANGED envVars

(* 106-112, 140: the callback and the log lines are over; stop() returns *)
StopReturn(c) ==
  /\ cpc[c] = "p140"
  /\ cpc' = [cpc EXCEPT ![c] = cret[c]]
  /\ cret' = [cret EXCEPT ![c] = "idle"]
  /\ stopped' = [stopped EXCEPT ![csess[c]] = TRUE]
  /\ csess' = [csess EXCEPT ![c] = 0]
  /\ UNCHANGED <<sessVars, workerVars, ccam, ctodo>>
  /\ UNCHANGED <<clients, lock, replaced_by, removed>>
  /\ UNCHANGED <<envVars, callback_error>>

(* the steps inside stop(), whoever called it *)
StopStep(c) ==
  \/ JoinDone(c)
  \/ JoinTimedOut(c)
  \/ StopCleanup(c)
  \/ StopSetState(c)
  \/ StopReturn(c)

(* ---- the session on its own: callers start and stop it directly ---- *)
Next ==
  \/ \E w \in Workers : LoopHead(w)
  \/ \E w \in Workers : GiveUp(w)
  \/ \E w \in Workers : BeginBackoff(w)
  \/ \E w \in Workers : FirstAttempt(w)
  \/ \E w \in Workers : SkipConnect(w)
  \/ \E w \in Workers : Wake(w)
  \/ \E w \in Workers : ConnectBegin(w)
  \/ \E w \in Workers : ConnectOk(w)
  \/ \E w \in Workers : ConnectFail(w)
  \/ \E w \in Workers : BeginStreaming(w)
  \/ \E w \in Workers : ReadNoCapture(w)
  \/ \E w \in Workers : HaveCapture(w)
  \/ \E w \in Workers : ReadOk(w)
  \/ \E w \in Workers : ReadFail(w)
  \/ \E w \in Workers : ReadRaise(w)
  \/ \E w \in Workers : Exit(w)
  \/ \E c \in DirectCallers : \E s \in Sessions : StartCheck(c, s)
  \/ \E c \in DirectCallers : StartRefused(c)
  \/ \E c \in DirectCallers : StartThread(c)
  \/ \E c \in DirectCallers : \E s \in Sessions : StopBegin(c, s)
  \/ \E c \in DirectCallers : StopStep(c)

Spec == Init /\ [][Next]_vars

(* ---- the registry: RTSPClientManager, and its caller in api/cameras.py ---- *)

(* rtsp_client.py:340-342 *)
get_client(k) == clients[k]

(* remove_client that keeps the entry it should delete *)
del_client_kept(k) == clients

(* rtsp_client.py:349: del self._clients[camera_id] *)
del_client(k) == [clients EXCEPT ![k] = 0]

(* an RTSPClient object not constructed yet *)
FreeSessions == {s \in Sessions : ~exists[s]}

(* 323, 346, 353: with self._lock *)
acquire(c) ==
  /\ lock = 0
  /\ lock' = c

(* cameras.py:224, rtsp_client.py:323: create_client(camera_id) takes the lock *)
CreateLock(c, k) ==
  /\ cpc[c] = "idle"
  /\ FreeSessions # {}      \* the model's stock of RTSPClient objects
  /\ acquire(c)
  /\ cpc' = [cpc EXCEPT ![c] = "cc324"]
  /\ ccam' = [ccam EXCEPT ![c] = k]
  /\ UNCHANGED <<sessVars, workerVars, csess, cret, ctodo>>
  /\ UNCHANGED <<clients, replaced_by, removed, stopped>>
  /\ UNCHANGED <<envVars, callback_error>>

(* 324-326: the id has a client: stop it first *)
CreateStopOld(c) ==
  /\ cpc[c] = "cc324"
  /\ clients[ccam[c]] # 0
  /\ stop_begin(c, clients[ccam[c]], "cc328")
  /\ UNCHANGED <<ccam, ctodo, regVars>>
  /\ UNCHANGED <<envVars, callback_error>>

(* 324: the id has no client *)
CreateNoOld(c) ==
  /\ cpc[c] = "cc324"
  /\ clients[ccam[c]] = 0
  /\ cpc' = [cpc EXCEPT ![c] = "cc328"]
  /\ UNCHANGED <<sessVars, workerVars, csess, cret, ccam, ctodo, regVars>>
  /\ UNCHANGED <<envVars, callback_error>>

(* 328-338: construct the client, register it, release the lock, return it;
   cameras.py:230 then calls client.start() *)
CreateNew(c) ==
  /\ cpc[c] = "cc328"
  /\ FreeSessions # {}
  /\ LET k == ccam[c]
         old == clients[k]
         s == CHOOSE x \in FreeSessions : \A y \in FreeSessions : x <= y
     IN /\ exists' = [exists EXCEPT ![s] = TRUE]
        /\ camera_id' = [camera_id EXCEPT ![s] = k]
        /\ clients' = [clients EXCEPT ![k] = s]
        /\ replaced_by' = IF old = 0 THEN replaced_by
                          ELSE [replaced_by EXCEPT ![old] = s]
        /\ removed' = [removed EXCEPT ![k] = -1]
        /\ csess' = [csess EXCEPT ![c] = s]
  /\ lock' = 0
  /\ cpc' = [cpc EXCEPT ![c] = "s120"]
  /\ UNCHANGED <<state, error_message, capture, running, thread, frames_dropped,
                 frames_received, last_frame, frames_forwarded>>
  /\ UNCHANGED <<workerVars, cret, ccam, ctodo, stopped>>
  /\ UNCHANGED <<envVars, callback_error>>

(* cameras.py:230, rtsp_client.py:120: client.start(): if self._running *)
StartCreated(c) ==
  /\ cpc[c] = "s120"
  /\ cpc' = [cpc EXCEPT ![c] = IF running[csess[c]] THEN "s121" ELSE "s124"]
  /\ UNCHANGED <<sessVars, workerVars, csess, cret, ccam, ctodo, regVars>>
  /\ UNCHANGED <<envVars, callback_error>>

(* cameras.py:266, rtsp_client.py:346: remove_client(camera_id) takes the lock *)
RemoveLock(c, k) ==
  /\ cpc[c] = "idle"
  /\ acquire(c)
  /\ cpc' = [cpc EXCEPT ![c] = "rc347"]
  /\ ccam' = [ccam EXCEPT ![c] = k]
  /\ UNCHANGED <<sessVars, workerVars, csess, cret, ctodo>>
  /\ UNCHANGED <<clients, replaced_by, removed, stopped>>
  /\ UNCHANGED <<envVars, callback_error>>

(* 347-348: the id has a client: stop it *)
RemoveStop(c) ==
  /\ cpc[c] = "rc347"
  /\ clients[ccam[c]] # 0
  /\ stop_begin(c, clients[ccam[c]], "rc349")
  /\ UNCHANGED <<ccam, ctodo, regVars>>
  /\ UNCHANGED <<envVars, callback_error>>

(* 347: the id has no client: nothing to do, release the lock *)
RemoveAbsent(c) ==
  /\ cpc[c] = "rc347"
  /\ clients[ccam[c]] = 0
  /\ removed' = [removed EXCEPT ![ccam[c]] = 0]
  /\ lock' = 0
  /\ cpc' = [cpc EXCEPT ![c] = "idle"]
  /\ UNCHANGED <<sessVars, workerVars, csess, cret, ccam, ctodo>>
  /\ UNCHANGED <<clients, replaced_by, stopped>>
  /\ UNCHANGED <<envVars, callback_error>>

(* 349: del self._clients[camera_id]; release the lock *)
RemoveDel(c) ==
  /\ cpc[c] = "rc349"
  /\ removed' = [removed EXCEPT ![ccam[c]] = clients[ccam[c]]]
  /\ clients' = del_client(ccam[c])
  /\ lock' = 0
  /\ cpc' = [cpc EXCEPT ![c] = "idle"]
  /\ UNCHANGED <<sessVars, workerVars, csess, cret, ccam, ctodo>>
  /\ UNCHANGED <<replaced_by, stopped>>
  /\ UNCHANGED <<envVars, callback_error>>

(* main.py:93, rtsp_client.py:353-354: stop_all() takes the lock and iterates *)
StopAllLock(c) ==
  /\ cpc[c] = "idle"
  /\ acquire(c)
  /\ ctodo' = [ctodo EXCEPT ![c] = {k \in Cameras : clients[k] # 0}]
  /\ cpc' = [cpc EXCEPT ![c] = "sa354"]
  /\ UNCHANGED <<sessVars, workerVars, csess, cret, ccam>>
  /\ UNCHANGED <<clients, replaced_by, removed, stopped>>
  /\ UNCHANGED <<envVars, callback_error>>

(* 354-355: client.stop() for the next client *)
StopAllNext(c) ==
  /\ cpc[c] = "sa354"
  /\ \E k \in ctodo[c] :
       /\ stop_begin(c, clients[k], "sa354")
       /\ ctodo' = [ctodo EXCEPT ![c] = @ \ {k}]
  /\ UNCHANGED <<ccam, regVars>>
  /\ UNCHANGED <<envVars, callback_error>>

(* 356: self._clients.clear(); release the lock *)
StopAllClear(c) ==
  /\ cpc[c] = "sa354"
  /\ ctodo[c] = {}
  /\ clients' = [k \in Cameras |-> 0]
  /\ lock' = 0
  /\ cpc' = [cpc EXCEPT ![c] = "idle"]
  /\ UNCHANGED <<sessVars, workerVars, csess, cret, ccam, ctodo>>
  /\ UNCHANGED <<replaced_by, removed, stopped>>
  /\ UNCHANGED <<envVars, callback_error>>

(* RTSPClientManager.__init__ (299-303): no client yet *)
RegInit ==
  /\ InitCommon
  /\ NoPipeline
  /\ rtsp_max_reconnect_attempts = SmallMaxAttempts
  /\ callback_outcomes = {FALSE}
  /\ fall_alert_cooldown = DefaultCooldown
  /\ exists = [s \in Sessions |-> FALSE]
  /\ camera_id = [s \in Sessions |-> None]
  /\ clients = [k \in Cameras |-> 0]

(* The registry driven as api/cameras.py and main.py drive it: create_client
   then start, remove_client, stop_all, from concurrent callers *)
RegNext ==
  \/ \E w \in Workers : LoopHead(w)
  \/ \E w \in Workers : GiveUp(w)
  \/ \E w \in Workers : BeginBackoff(w)
  \/ \E w \in Workers : FirstAttempt(w)
  \/ \E w \in Workers : SkipConnect(w)
  \/ \E w \in Workers : Wake(w)
  \/ \E w \in Workers : ConnectBegin(w)
  \/ \E w \in Workers : ConnectOk(w)
  \/ \E w \in Workers : ConnectFail(w)
  \/ \E w \in Workers : BeginStreaming(w)
  \/ \E w \in Workers : ReadNoCapture(w)
  \/ \E w \in Workers : HaveCapture(w)
  \/ \E w \in Workers : ReadOk(w)
  \/ \E w \in Workers : ReadFail(w)
  \/ \E w \in Workers : ReadRaise(w)
  \/ \E w \in Workers : Exit(w)
  \/ \E c \in Callers : \E k \in Cameras : CreateLock(c, k)
  \/ \E c \in Callers : CreateStopOld(c)
  \/ \E c \in Callers : CreateNoOld(c)
  \/ \E c \in Callers : CreateNew(c)
  \/ \E c \in Callers : StartCreated(c)
  \/ \E c \in Callers : StartThread(c)
  \/ \E c \in Callers : \E k \in Cameras : RemoveLock(c, k)
  \/ \E c \in Callers : RemoveStop(c)
  \/ \E c \in Callers : RemoveAbsent(c)
  \/ \E c \in Callers : RemoveDel(c)
  \/ \E c \in Callers : StopAllLock(c)
  \/ \E c \in Callers : StopAllNext(c)
  \/ \E c \in Callers : StopAllClear(c)
  \/ \E c \in Callers : StopStep(c)

RegSpec == RegInit /\ [][RegNext]_vars

(* The session with a consumer whose callbacks can raise *)
CbInit ==
  /\ InitCommon
  /\ NoPipeline
  /\ rtsp_max_reconnect_attempts = SmallMaxAttempts
  /\ callback_outcomes = BOOLEAN
  /\ fall_alert_cooldown = DefaultCooldown
  /\ exists = [s \in Sessions |-> s = 1]
  /\ camera_id = [s \in Sessions |-> IF s = 1 THEN "cam1" ELSE None]
  /\ clients = [k \in Cameras |-> 1]

CbSpec == CbInit /\ [][Next]_vars

(* ---- the session's fields, statement by statement: the worker's writes in
   _set_state and in the frame update, and a thread that reads the session
   through its accessors (get_all_stats, api/stream.py) ---- *)

(* the session the reader looks at *)
LockSession == 1

(* The _set_state calls the worker makes when the state is st: _connect (157,
   176, 190), _stream_loop (203-206, 210, 227, 283) *)
StateCalls(st) ==
  CASE st = "DISCONNECTED" -> {<<"CONNECTING", None>>}
    [] st = "CONNECTING" -> {<<"CONNECTED", None>>, <<"ERROR", "connect_failed">>}
    [] st = "CONNECTED" -> {<<"STREAMING", None>>}
    [] st = "STREAMING" -> {<<"DISCONNECTED", None>>}
    [] st = "RECONNECTING" -> {<<"CONNECTING", None>>}
    [] st = "ERROR" -> {<<"RECONNECTING", None>>, <<"ERROR", "max_attempts">>,
                        <<"DISCONNECTED", None>>}

(* 103: self._state = state *)
SetState103 ==
  /\ lpc = "loop"
  /\ \E call \in StateCalls(state[LockSession]) :
       /\ state' = [state EXCEPT ![LockSession] = call[1]]
       /\ lpend' = call
  /\ lpc' = "L104"
  /\ UNCHANGED <<error_message, frames_received, last_frame, frames_forwarded>>
  /\ UNCHANGED <<slock, rpc, seen_state, seen_error, seen_frame>>
  /\ UNCHANGED <<lstop, lockFrame>>

(* 104: self._error_message = error *)
SetState104 ==
  /\ lpc = "L104"
  /\ error_message' = [error_message EXCEPT ![LockSession] = lpend[2]]
  /\ lpend' = <<"DISCONNECTED", None>>
  /\ lpc' = "loop"
  /\ UNCHANGED <<state, frames_received, last_frame, frames_forwarded>>
  /\ UNCHANGED <<slock, rpc, seen_state, seen_error, seen_frame>>
  /\ UNCHANGED <<lstop, lockFrame>>

(* 138, 103: stop() calls _set_state(DISCONNECTED) while the worker is still
   running: the join of line 135 gave up on a worker that was in the
   connection test (CONNECTING), in the backoff sleep (RECONNECTING) or just
   out of a failed connect (ERROR) *)
StopSetState103 ==
  /\ lstop = "idle"
  /\ state[LockSession] \in {"CONNECTING", "RECONNECTING", "ERROR"}
  /\ state' = [state EXCEPT ![LockSession] = "DISCONNECTED"]
  /\ lstop' = "L104"
  /\ UNCHANGED <<error_message, frames_received, last_frame, frames_forwarded>>
  /\ UNCHANGED <<slock, lpc, lpend, rpc, seen_state, seen_error, seen_frame>>
  /\ UNCHANGED lockFrame

(* 138, 104: self._error_message = None in the stopping thread *)
StopSetState104 ==
  /\ lstop = "L104"
  /\ error_message' = [error_message EXCEPT ![LockSession] = None]
  /\ lstop' = "done"
  /\ UNCHANGED <<state, frames_received, last_frame, frames_forwarded>>
  /\ UNCHANGED <<slock, lpc, lpend, rpc, seen_state, seen_error, seen_frame>>
  /\ UNCHANGED lockFrame

(* 256: self._stats.frames_received += 1, for a frame read while STREAMING *)
CountFrame ==
  /\ lpc = "loop"
  /\ state[LockSession] = "STREAMING"
  /\ frames_received[LockSession] < MaxFrames
  /\ frames_received' = [frames_received EXCEPT ![LockSession] = @ + 1]
  /\ lpc' = "L261"
  /\ UNCHANGED <<state, error_message, last_frame, frames_forwarded>>
  /\ UNCHANGED <<slock, lpend, rpc, seen_state, seen_error, seen_frame>>
  /\ UNCHANGED <<lstop, lockFrame>>

(* 261: with self._lock *)
WorkerAcquire ==
  /\ lpc = "L261"
  /\ slock = "free"
  /\ slock' = "worker"
  /\ lpc' = "L262"
  /\ UNCHANGED <<state, error_message, frames_received, last_frame, frames_forwarded>>
  /\ UNCHANGED <<lpend, rpc, seen_state, seen_error, seen_frame>>
  /\ UNCHANGED <<lstop, lockFrame>>

(* 262: self._last_frame = frame; the with block ends *)
StoreFrame ==
  /\ lpc = "L262"
  /\ last_frame' = [last_frame EXCEPT ![LockSession] = frames_received[LockSession]]
  /\ slock' = "free"
  /\ lpc' = "L265"
  /\ UNCHANGED <<state, error_message, frames_received, frames_forwarded>>
  /\ UNCHANGED <<lpend, rpc, seen_state, seen_error, seen_frame>>
  /\ UNCHANGED <<lstop, lockFrame>>

(* 265-274: on_frame(frame, camera_id); back to the loop *)
ForwardFrame ==
  /\ lpc = "L265"
  /\ frames_forwarded' = [frames_forwarded EXCEPT ![LockSession] = @ + 1]
  /\ lpc' = "loop"
  /\ UNCHANGED <<state, error_message, frames_received, last_frame>>
  /\ UNCHANGED <<slock, lpend, rpc, seen_state, seen_error, seen_frame>>
  /\ UNCHANGED <<lstop, lockFrame>>

(* 362, 80-83: the reader evaluates client.state *)
ReadState ==
  /\ rpc \in {"idle", "seen"}
  /\ seen_state' = state[LockSession]
  /\ rpc' = "L367"
  /\ UNCHANGED <<state, error_message, frames_received, last_frame, frames_forwarded>>
  /\ UNCHANGED <<slock, lpc, lpend, seen_error, seen_frame>>
  /\ UNCHANGED <<lstop, lockFrame>>

(* 367, 96-99: the reader evaluates client.error_message *)
ReadError ==
  /\ rpc = "L367"
  /\ seen_error' = error_message[LockSession]
  /\ rpc' = "seen"
  /\ UNCHANGED <<state, error_message, frames_received, last_frame, frames_forwarded>>
  /\ UNCHANGED <<slock, lpc, lpend, seen_state, seen_frame>>
  /\ UNCHANGED <<lstop, lockFrame>>

(* 93: client.last_frame: with self._lock *)
ReaderAcquire ==
  /\ rpc \in {"idle", "seen"}
  /\ slock = "free"
  /\ slock' = "reader"
  /\ rpc' = "L94"
  /\ UNCHANGED <<state, error_message, frames_received, last_frame, frames_forwarded>>
  /\ UNCHANGED <<lpc, lpend, seen_state, seen_error, seen_frame>>
  /\ UNCHANGED <<lstop, lockFrame>>

(* 94: return the copy of self._last_frame; the with block ends *)
ReadLastFrame ==
  /\ rpc = "L94"
  /\ seen_frame' = last_frame[LockSession]
  /\ slock' = "free"
  /\ rpc' = "idle"
  /\ UNCHANGED <<state, error_message, frames_received, last_frame, frames_forwarded>>
  /\ UNCHANGED <<lpc, lpend, seen_state, seen_error>>
  /\ UNCHANGED <<lstop, lockFrame>>

LockNext ==
  \/ SetState103
  \/ SetState104
  \/ StopSetState103
  \/ StopSetState104
  \/ CountFrame
  \/ WorkerAcquire
  \/ StoreFrame
  \/ ForwardFrame
  \/ ReadState
  \/ ReadError
  \/ ReaderAcquire
  \/ ReadLastFrame

LockSpec == Init /\ [][LockNext]_vars

(* The worker is a thread of its own: the scheduler keeps running it *)
FairSpec == Spec /\ \A w \in Workers : WF_vars(WorkerStep(w))

(* ---- the detection pipeline: PersonTracker and DetectionPipeline
   (services/detection_pipeline.py).  process_frame runs on the event loop
   (api/stream.py), one call at a time; a call is one step.  Angles are whole
   degrees, heights hundredths of the frame height, confidences hundredths,
   times ticks.  A quotient the code computes is kept as the pair
   <<numerator, denominator>> and compared by cross-multiplication. ---- *)

(* a deque without maxlen: append(x) drops nothing *)
deque_append_unbounded(d, x, maxlen) == Append(d, x)

(* deque(maxlen=n).append(x): a full deque drops its oldest entry *)
deque_append(d, x, maxlen) ==
  IF Len(d) < maxlen THEN Append(d, x) ELSE Append(Tail(d), x)

(* list(d)[-n:] *)
LastN(d, n) == IF Len(d) <= n THEN d ELSE SubSeq(d, Len(d) - n + 1, Len(d))

Abs(x) == IF x < 0 THEN -x ELSE x

Max(a, b) == IF a >= b THEN a ELSE b

(* 149, 193: dt <= 0.01 (seconds), dt in ticks *)
TooShort(dt) == 100 * dt <= TicksPerSecond

(* 121-133: PersonTracker.add_observation, t its time.time() *)
add_observation(tr, t, st, hip_center_y, body_angle) ==
  [tr EXCEPT
     !.state_history =
        deque_append(@, <<t, st, body_angle>>, state_history_maxlen),
     !.position_history =
        deque_append(@, <<t, hip_center_y>>, position_history_maxlen),
     !.last_standing_time = IF st = "STANDING" THEN t ELSE @]

(* 135-153: None, or (y_end - y_start) / dt over the last three positions *)
get_vertical_velocity(tr) ==
  IF Len(tr.position_history) < 3 THEN NoValue
  ELSE LET positions == LastN(tr.position_history, 3)
           dt == positions[3][1] - positions[1][1]
       IN IF TooShort(dt) THEN NoValue
          ELSE <<positions[3][2] - positions[1][2], dt>>

(* 155-165: velocity is not None and velocity > threshold, the threshold in
   hundredths of the frame height per second *)
detect_rapid_descent(tr, threshold) ==
  LET velocity == get_vertical_velocity(tr)
  IN velocity # NoValue /\ velocity[1] * TicksPerSecond > threshold * velocity[2]

(* the scan of 173-178 without the test of the window (174-175) *)
RECURSIVE upright_scan_ever(_, _, _, _)
upright_scan_ever(h, i, t, tenths) ==
  IF i = 0 THEN FALSE
  ELSE IF h[i][2] \in {"STANDING", "SITTING"} THEN TRUE
  ELSE upright_scan_ever(h, i - 1, t, tenths)

(* 173-178: the loop over reversed(state_history), from entry i down *)
RECURSIVE upright_scan(_, _, _, _)
upright_scan(h, i, t, tenths) ==
  IF i = 0 THEN FALSE
  ELSE IF 10 * (t - h[i][1]) > tenths * TicksPerSecond THEN FALSE
  ELSE IF h[i][2] \in {"STANDING", "SITTING"} THEN TRUE
  ELSE upright_scan(h, i - 1, t, tenths)

(* 167-178: PersonTracker.was_recently_upright, t its time.time(), the window
   in tenths of a second *)
was_recently_upright(tr, t, tenths) ==
  upright_scan(tr.state_history, Len(tr.state_history), t, tenths)

HasAngle(e) == e[3] # NoValue

(* 180-196: None, or abs(angle_end - angle_start) / dt over those of the last
   five samples that have an angle *)
get_angle_change_rate(tr) ==
  IF Len(tr.state_history) < 3 THEN NoValue
  ELSE LET recent == SelectSeq(LastN(tr.state_history, 5), HasAngle)
       IN IF Len(recent) < 2 THEN NoValue
          ELSE LET dt == recent[Len(recent)][1] - recent[1][1]
               IN IF TooShort(dt) THEN NoValue
                  ELSE <<Abs(recent[Len(recent)][3][1] - recent[1][3][1]), dt>>

(* the test of 198-200 answering False whatever the time *)
is_in_fall_cooldown_never(tr, t) == FALSE

(* 198-200: time.time() < self.fall_cooldown_until *)
is_in_fall_cooldown(tr, t) == t < tr.fall_cooldown_until

(* the call of line 406 left out: no fall time, no cooldown *)
mark_fall_detected_skipped(tr, t, cooldown_seconds) == tr

(* 202-206 with the last sample of the history rewritten to the posture that
   is emitted *)
mark_fall_detected_stored(tr, t, cooldown_seconds) ==
  LET h == tr.state_history
  IN [tr EXCEPT !.fall_detected_time = Some(t),
                !.fall_cooldown_until = t + cooldown_seconds * TicksPerSecond,
                !.state_history =
                   IF h = <<>> THEN h
                   ELSE [h EXCEPT ![Len(h)] = <<h[Len(h)][1], "FALLING", h[Len(h)][3]>>]]

(* 202-206: PersonTracker.mark_fall_detected, t its time.time() *)
mark_fall_detected(tr, t, cooldown_seconds) ==
  [tr EXCEPT !.fall_detected_time = Some(t),
             !.fall_cooldown_until = t + cooldown_seconds * TicksPerSecond]

(* a pose as _process_pose sees it (385-388): the body angle and the hip
   height, each None when the landmarks it needs are not visible, and whether
   the shoulders are above the hips *)
Pose(angle, y, above) ==
  [body_angle |-> angle, hip_center_y |-> y, shoulders_above_hips |-> above]

(* 507-536 with <= for < in the three comparisons *)
classify_state_inclusive(pose) ==
  IF pose.body_angle = NoValue THEN <<"UNKNOWN", 30>>
  ELSE LET body_angle == pose.body_angle[1]
       IN IF body_angle <= 25 THEN <<"STANDING", 90>>
          ELSE IF body_angle <= 50
                 THEN IF pose.shoulders_above_hips THEN <<"SITTING", 75>>
                      ELSE <<"LYING", 60>>
          ELSE IF body_angle <= 70 THEN <<"LYING", 80>>
          ELSE <<"LYING", 90>>

(* 507-536: DetectionPipeline._classify_state: <<state, confidence>> *)
classify_state(pose) ==
  IF pose.body_angle = NoValue THEN <<"UNKNOWN", 30>>
  ELSE LET body_angle == pose.body_angle[1]
       IN IF body_angle < 25 THEN <<"STANDING", 90>>
          ELSE IF body_angle < 50
                 THEN IF pose.shoulders_above_hips THEN <<"SITTING", 75>>
                      ELSE <<"LYING", 60>>
          ELSE IF body_angle < 70 THEN <<"LYING", 80>>
          ELSE <<"LYING", 90>>

(* ---- the keypoints of a pose (417-429): a list of PoseLandmark, entry
   i + 1 of the sequence being landmark index i; x and y are hundredths of
   the frame's width and height (y grows downwards), visibility hundredths *)

PoseLandmark(x, y, visibility) == [x |-> x, y |-> y, visibility |-> visibility]

(* LandmarkIndex (82-95), as positions of the sequence *)
LandmarkIndex ==
  [LEFT_SHOULDER |-> 11 + 1, RIGHT_SHOULDER |-> 12 + 1,
   LEFT_HIP |-> 23 + 1, RIGHT_HIP |-> 24 + 1]

(* visibility < 0.5 (473, 502) *)
Hidden(landmark) == landmark.visibility < 50

(* np.degrees(np.arctan2(a, b)) for a >= 0, rounded down to whole degrees, on
   the directions the keypoint sets of this model take: arctan2(0, b) is 0 for
   b > 0 and pi for b < 0 and for b = -0.0, which is what -dy is when dy is 0.0 *)
arctan2_degrees(a, b) ==
  CASE a = 0 /\ b > 0 -> 0
    [] a = 0 /\ b <= 0 -> 180
    [] a > 0 /\ b = 0 -> 90
    [] a > 0 /\ b > 0 /\ 2 * a = b -> 26
    [] a > 0 /\ b > 0 /\ a = b -> 45
    [] a > 0 /\ b > 0 /\ a = 2 * b -> 63
    [] a > 0 /\ b < 0 /\ a = -2 * b -> 116
    [] a > 0 /\ b < 0 /\ a = -b -> 135
    [] a > 0 /\ b < 0 /\ 2 * a = -b -> 153

(* min(xs) and max(xs) of 444-445, xs the set of the list's values *)
MinOf(xs) == CHOOSE x \in xs : \A y \in xs : x <= y
MaxOf(xs) == CHOOSE x \in xs : \A y \in xs : x >= y

(* 452-453: max(0, x_min - padding_x), in thousandths of the frame, lo and hi
   being hundredths and the padding (448-449) a tenth of hi - lo *)
box_edge(lo, hi) == Max(0, 10 * lo - (hi - lo))

(* 454-455: min(1, x_max - x_min + 2 * padding_x), in thousandths *)
box_extent(lo, hi) == Min(1000, 10 * (hi - lo) + 2 * (hi - lo))

(* 444-456: the arguments of BoundingBox(...) from the values xs and ys *)
box_of(xs, ys) ==
  [x |-> box_edge(MinOf(xs), MaxOf(xs)),
   y |-> box_edge(MinOf(ys), MaxOf(ys)),
   width |-> box_extent(MinOf(xs), MaxOf(xs)),
   height |-> box_extent(MinOf(ys), MaxOf(ys))]

(* 431-456: DetectionPipeline._calculate_bounding_box, up to the call of
   BoundingBox: the four arguments of that call, in thousandths.  The lists
   visible, xs and ys are kept as the sets of their entries, which is all
   that min and max look at *)
calculate_bounding_box(landmarks) ==
  IF landmarks = <<>> THEN [x |-> 0, y |-> 0, width |-> 1000, height |-> 1000]
  ELSE LET all == {landmarks[i] : i \in 1..Len(landmarks)}
           seen == {lm \in all : lm.visibility > 30}
           visible == IF seen = {} THEN all ELSE seen
       IN box_of({lm.x : lm \in visible}, {lm.y : lm \in visible})

(* models/detection.py 20-26: the constraints ge=0, le=1 of the four fields;
   BoundingBox(...) raises a ValidationError when one of them is broken *)
BoundingBoxValid(bbox) ==
  \A v \in {bbox.x, bbox.y, bbox.width, bbox.height} : 0 <= v /\ v <= 1000

(* line 492 without the clamp: float(angle) *)
clamp_angle_off(angle) == angle

(* 492: max(0, min(90, angle)) *)
clamp_angle(angle) == Max(0, IF angle <= 90 THEN angle ELSE 90)

(* 458-492 with the height of the shoulders over the hips taken without its
   sign: abs(dy) for -dy in line 490 *)
calculate_body_angle_unsigned(landmarks) ==
  IF Len(landmarks) < 25 THEN NoValue
  ELSE LET left_shoulder == landmarks[LandmarkIndex.LEFT_SHOULDER]
           right_shoulder == landmarks[LandmarkIndex.RIGHT_SHOULDER]
           left_hip == landmarks[LandmarkIndex.LEFT_HIP]
           right_hip == landmarks[LandmarkIndex.RIGHT_HIP]
       IN IF \E lm \in {left_shoulder, right_shoulder, left_hip, right_hip} :
               Hidden(lm)
            THEN NoValue
            ELSE LET dx == (left_shoulder.x + right_shoulder.x)
                             - (left_hip.x + right_hip.x)
                     dy == (left_shoulder.y + right_shoulder.y)
                             - (left_hip.y + right_hip.y)
                 IN Some(clamp_angle(arctan2_degrees(Abs(dx), Abs(dy))))

(* 458-492: DetectionPipeline._calculate_body_angle; dx and dy are kept
   doubled (the differences of the sums, not of the midpoints), which leaves
   the direction as it is *)
calculate_body_angle(landmarks) ==
  IF Len(landmarks) < 25 THEN NoValue
  ELSE LET left_shoulder == landmarks[LandmarkIndex.LEFT_SHOULDER]
           right_shoulder == landmarks[LandmarkIndex.RIGHT_SHOULDER]
           left_hip == landmarks[LandmarkIndex.LEFT_HIP]
           right_hip == landmarks[LandmarkIndex.RIGHT_HIP]
       IN IF \E lm \in {left_shoulder, right_shoulder, left_hip, right_hip} :
               Hidden(lm)
            THEN NoValue
            ELSE LET dx == (left_shoulder.x + right_shoulder.x)
                             - (left_hip.x + right_hip.x)
                     dy == (left_shoulder.y + right_shoulder.y)
                             - (left_hip.y + right_hip.y)
                 IN Some(clamp_angle(arctan2_degrees(Abs(dx), -dy)))

(* 494-505: DetectionPipeline._get_hip_center_y *)
get_hip_center_y(landmarks) ==
  IF Len(landmarks) < 25 THEN NoValue
  ELSE IF Hidden(landmarks[LandmarkIndex.LEFT_HIP]) \/ Hidden(landmarks[LandmarkIndex.RIGHT_HIP])
         THEN NoValue
  ELSE Some((landmarks[LandmarkIndex.LEFT_HIP].y + landmarks[LandmarkIndex.RIGHT_HIP].y) \div 2)

(* 538-550: DetectionPipeline._are_shoulders_above_hips: the midpoints
   compared, which is the sums compared *)
are_shoulders_above_hips(landmarks) ==
  IF Len(landmarks) < 25 THEN TRUE
  ELSE landmarks[LandmarkIndex.LEFT_SHOULDER].y + landmarks[LandmarkIndex.RIGHT_SHOULDER].y
         < landmarks[LandmarkIndex.LEFT_HIP].y + landmarks[LandmarkIndex.RIGHT_HIP].y

(* 379-388: what _process_pose computes from the keypoints of a pose *)
pose_of(landmarks) ==
  Pose(calculate_body_angle(landmarks), get_hip_center_y(landmarks),
       are_shoulders_above_hips(landmarks))

(* the test of 598-599 with any measured change counted as rapid *)
rapid_angle_change_any(tr) ==
  LET angle_change_rate == get_angle_change_rate(tr)
  IN angle_change_rate # NoValue /\ angle_change_rate[1] > 0

(* 598-599: angle_change_rate is not None and angle_change_rate > 30 *)
rapid_angle_change(tr) ==
  LET angle_change_rate == get_angle_change_rate(tr)
  IN /\ angle_change_rate # NoValue
     /\ angle_change_rate[1] * TicksPerSecond > 30 * angle_change_rate[2]

(* 604-610: a Standing sample among the first three of the last five *)
standing_then_lying(tr, current_state) ==
  /\ Len(tr.state_history) >= 5
  /\ \E i \in 1..3 : LastN(tr.state_history, 5)[i][2] = "STANDING"
  /\ current_state = "LYING"

(* 561-621 without the test of 585-586: any posture can be a fall *)
is_fall_any_state(current_state, tr, body_angle, t) ==
  IF is_in_fall_cooldown(tr, t) THEN FALSE
  ELSE IF ~was_recently_upright(tr, t, 25) THEN FALSE
  ELSE IF body_angle # NoValue /\ body_angle[1] < 50 THEN FALSE
  ELSE IF ~(detect_rapid_descent(tr, 20) \/ rapid_angle_change(tr))
         THEN standing_then_lying(tr, current_state)
  ELSE TRUE

(* 561-621: DetectionPipeline._is_fall; t is the time.time() of the calls it
   makes on the tracker *)
is_fall(current_state, tr, body_angle, t) ==
  IF is_in_fall_cooldown(tr, t) THEN FALSE
  ELSE IF current_state # "LYING" THEN FALSE
  ELSE IF ~was_recently_upright(tr, t, 25) THEN FALSE
  ELSE IF body_angle # NoValue /\ body_angle[1] < 50 THEN FALSE
  ELSE IF ~(detect_rapid_descent(tr, 20) \/ rapid_angle_change(tr))
         THEN standing_then_lying(tr, current_state)
  ELSE TRUE

(* line 405 left out *)
fall_confidence_kept(confidence) == confidence

(* 405: confidence = max(confidence, 0.85) *)
fall_confidence(confidence) == Max(confidence, 85)

(* 394-415: _process_pose from the classification on, for the tracker that
   _get_or_create_tracker returned: the tracker afterwards and the
   PersonDetection *)
process_pose(tracker, key, pose, t) ==
  LET cls == classify_state(pose)
      recorded ==
        IF pose.hip_center_y # NoValue
          THEN add_observation(tracker, t, cls[1], pose.hip_center_y[1],
                               pose.body_angle)
          ELSE tracker
      fall == is_fall(cls[1], recorded, pose.body_angle, t)
  IN [tracker |-> IF fall
                    THEN mark_fall_detected(recorded, t, fall_alert_cooldown)
                    ELSE recorded,
      person |-> [id |-> key,
                  state |-> IF fall THEN "FALLING" ELSE cls[1],
                  confidence |-> IF fall THEN fall_confidence(cls[2]) ELSE cls[2],
                  body_angle |-> pose.body_angle]]

(* line 391 with the camera left out of the key: one track per slot *)
tracker_key_per_slot(camera, person_idx) == <<"cam1", person_idx>>

(* 391: tracker_key = f"{camera_id}_person_{person_idx}".  The digits after
   the last "_person_" are the index and what is before it is the camera id,
   so the string determines the pair and the pair stands for it *)
tracker_key(camera, person_idx) == <<camera, person_idx>>

(* 329-341 with 552-559: the loop of process_frame over the poses of a frame,
   person_idx = Len(out); a key not yet in the dict gets a new tracker *)
RECURSIVE process_poses(_, _, _, _, _, _)
process_poses(trackers, next_id, out, camera, poses, t) ==
  IF Len(out) = Len(poses)
    THEN [trackers |-> trackers, next_id |-> next_id, persons |-> out]
    ELSE LET key == tracker_key(camera, Len(out))
             absent == trackers[key].person_id = 0
             tracker == IF absent THEN PersonTracker(next_id + 1) ELSE trackers[key]
             r == process_pose(tracker, key, poses[Len(out) + 1], t)
         IN process_poses([trackers EXCEPT ![key] = r.tracker],
                          IF absent THEN next_id + 1 ELSE next_id,
                          Append(out, r.person), camera, poses, t)

(* 339-341 with every detection counted as a fall *)
is_falling_any(person) == TRUE

(* 339: person.state == PersonState.FALLING *)
is_falling(person) == person.state = "FALLING"

(* 325-326 and 339-341 over the loop of 329: fall_detected and fall_person_ids
   after the detections out[1..i] were appended, from their values before *)
RECURSIVE aggregate_falls(_, _, _, _)
aggregate_falls(out, i, fall_detected, fall_person_ids) ==
  IF i > Len(out)
    THEN [fall_detected |-> fall_detected, fall_person_ids |-> fall_person_ids]
    ELSE IF is_falling(out[i])
           THEN aggregate_falls(out, i + 1, TRUE, Append(fall_person_ids, out[i].id))
           ELSE aggregate_falls(out, i + 1, fall_detected, fall_person_ids)

(* 345-351: DetectionResult(...); persons is kept in the variable of that
   name, processing_time_ms is left out *)
DetectionResult(frame_number, out) ==
  LET falls == aggregate_falls(out, 1, FALSE, <<>>)
  IN [frame_number |-> frame_number,
      fall_detected |-> falls.fall_detected,
      fall_person_ids |-> falls.fall_person_ids]

(* 315: int(time.time() * 1000) at tick t.  Tick 0 is taken to be one second
   after the epoch: the code compares the readings with each other and with the
   0 of line 235 only, and every reading of a real clock is above that 0 *)
time_ms(t) == ((t + TicksPerSecond) * 1000) \div TicksPerSecond

(* 315 alone: the reading of the clock goes to detect_for_video as it is *)
next_timestamp_ms_uncorrected(current_timestamp_ms, last) == current_timestamp_ms

(* 315-317: the timestamp for detect_for_video *)
next_timestamp_ms(current_timestamp_ms, last) ==
  IF current_timestamp_ms <= last THEN last + 1 ELSE current_timestamp_ms

(* 289-356: DetectionPipeline.process_frame(frame, camera_id), gap ticks after
   the call before it, on a frame in which the pose landmarker finds poses.
   With `raised`, _process_pose went through the poses given and raised on the
   one after them (382), and process_frame, which catches nothing, with it *)
process_frame(camera, poses, gap, raised) ==
  /\ LET t == now + gap
         current_timestamp_ms == next_timestamp_ms(time_ms(t), last_timestamp_ms)
     IN \E r \in {process_poses(person_trackers, next_person_id, <<>>, camera,
                                poses, t)} :
          /\ now' = t
          /\ frame_count' = frame_count + 1
          /\ last_timestamp_ms' = current_timestamp_ms
          /\ passed_ms' = [passed_ms EXCEPT ![camera] = Some(current_timestamp_ms)]
          /\ person_trackers' = r.trackers
          /\ next_person_id' = r.next_id
          /\ persons' = IF raised THEN <<>> ELSE r.persons
          /\ detection_result' =
               IF raised THEN NoValue
               ELSE Some(DetectionResult(frame_count + 1, r.persons))
  /\ UNCHANGED <<fall_alert_cooldown, rtspVars>>

(* process_frame on a frame given by what _process_pose makes of each pose,
   the keypoints being such that 382 returns a box *)
ProcessFrame(camera, poses, gap) ==
  /\ process_frame(camera, poses, gap, FALSE)
  /\ UNCHANGED <<geomVars, notifyVars>>

(* process_frame on a frame given by the keypoints of each pose (324,
   379-388): `boxes` are the boxes of line 382, `done` is the number of poses
   that _process_pose returned a detection for, which is all of them unless
   BoundingBox(...) raised on the next *)
ProcessLandmarks(camera, keypoints, gap) ==
  \E boxes \in {[i \in 1..Len(keypoints) |->
                   calculate_bounding_box(keypoints[i])]} :
    \E done \in {n \in 0..Len(boxes) :
                   /\ \A i \in 1..n : BoundingBoxValid(boxes[i])
                   /\ n < Len(boxes) => ~BoundingBoxValid(boxes[n + 1])} :
      \E poses \in {[i \in 1..done |-> pose_of(keypoints[i])]} :
        /\ process_frame(camera, poses, gap, done < Len(boxes))
        /\ pose_landmarks' = keypoints
        /\ bounding_boxes' = SubSeq(boxes, 1, Min(done + 1, Len(boxes)))
        /\ UNCHANGED <<angle_arg, classified, notifyVars>>

(* a direct call of _classify_state(landmarks, body_angle) (507-536) *)
ClassifyState(keypoints, angle) ==
  /\ pose_landmarks' = <<keypoints>>
  /\ angle_arg' = angle
  /\ UNCHANGED <<bounding_boxes, notifyVars>>
  /\ classified' =
       classify_state(Pose(angle, get_hip_center_y(keypoints),
                           are_shoulders_above_hips(keypoints)))
  /\ UNCHANGED <<fall_alert_cooldown, now, frame_count, next_person_id,
                 person_trackers, persons, detection_result,
                 last_timestamp_ms, passed_ms>>
  /\ UNCHANGED rtspVars

(* ---- the notifier, configured from the settings (telegram_notifier.py
   300-306: alert_cooldown_seconds = settings.fall_alert_cooldown) ---- *)

(* 183-198: TelegramNotifier.should_alert at time t.  A camera without an
   entry counts as alerted at time 0 (195), the epoch, which every reading of
   the clock is more than a cooldown after *)
should_alert(camera, t) ==
  \/ last_alert_times[camera] = NoValue
  \/ t - last_alert_times[camera][1] >= fall_alert_cooldown * TicksPerSecond

(* 200-202: TelegramNotifier.record_alert at time t *)
record_alert(camera, t) == [last_alert_times EXCEPT ![camera] = Some(t)]

(* one round of a consumer's loop (stream.py 64-77, 235-273) up to the first
   await inside send_fall_alert: the frame goes through the pipeline, and on a
   fall _handle_fall_detection calls send_fall_alert (222-238), which, if
   should_alert allows it, starts to send the photo.  Without a fall, or with
   the alert refused, the round ends *)
ConsumeFrame(c, camera, poses, gap) ==
  /\ send_pc[c] = "idle"
  /\ process_frame(camera, poses, gap, FALSE)
  /\ send_pc' = [send_pc EXCEPT ![c] =
                   IF detection_result'[1].fall_detected /\ should_alert(camera, now')
                     THEN "sending" ELSE "idle"]
  /\ UNCHANGED <<geomVars, last_alert_times, alerts_sent>>

(* 238-249: the send of consumer c comes back, gap ticks after the last step,
   successful or not (send_photo returns False on any failure, 171-181), and
   send_fall_alert records the alert if it was *)
SendDone(c, camera, success, gap) ==
  /\ send_pc[c] = "sending"
  /\ now' = now + gap
  /\ send_pc' = [send_pc EXCEPT ![c] = "idle"]
  /\ last_alert_times' = IF success THEN record_alert(camera, now')
                         ELSE last_alert_times
  /\ alerts_sent' = IF success
                      THEN [alerts_sent EXCEPT ![camera] = Append(@, now')]
                      ELSE alerts_sent
  /\ UNCHANGED <<fall_alert_cooldown, frame_count, next_person_id,
                 person_trackers, persons, detection_result, last_timestamp_ms,
                 passed_ms, geomVars, rtspVars>>

(* ---- one person standing in view for longer than the histories are: a
   frame with the person every half second, and frames with nobody in view
   that follow the frame before at once ---- *)
RingNext ==
  /\ frame_count < MaxRingFrames
  /\ \/ ProcessFrame("cam1", <<Pose(Some(10), Some(50), TRUE)>>, 1)
     \/ ProcessFrame("cam1", <<>>, 0)

RingSpec == PipelineInit /\ [][RingNext]_vars

(* ---- frames of two cameras through the one pipeline (stream.py 32-37), with
   or without a person in view, half a second after the call before, within
   the same millisecond, or after the clock was set back by half a second
   (time.time() is the wall clock) ---- *)
TimestampGaps == {-1, 0, 1}

TimestampNext ==
  /\ frame_count < MaxFrameCount
  /\ \E camera \in PipelineCameras :
       \E poses \in {<<>>, <<Pose(Some(10), Some(50), TRUE)>>} :
         \E gap \in TimestampGaps :
           /\ now + gap >= 0
           /\ ProcessFrame(camera, poses, gap)

TimestampSpec == PipelineInit /\ [][TimestampNext]_vars

(* ---- frames of two cameras with one or two persons in view, standing or
   lying flat, half a second apart ---- *)
IdentityPoses ==
  {Pose(Some(10), Some(50), TRUE), Pose(Some(75), Some(70), TRUE)}

IdentityFrames ==
  {<<p>> : p \in IdentityPoses}
    \cup {<<p, q>> : p \in IdentityPoses, q \in IdentityPoses}

IdentityNext ==
  /\ frame_count < MaxIdentityFrames
  /\ \E camera \in PipelineCameras :
       \E poses \in IdentityFrames : ProcessFrame(camera, poses, 1)

IdentitySpec == PipelineInit /\ [][IdentityNext]_vars

(* ---- keypoint sets ---- *)

(* where the shoulders are, seen from the hips, in hundredths of the frame:
   upright, leaning, bent over, level with the hips, below them, on them *)
TorsoOffsets ==
  {<<0, -20>>, <<10, -20>>, <<-10, -20>>, <<20, -20>>, <<20, -10>>,
   <<20, 0>>, <<20, 10>>, <<0, 20>>, <<0, 0>>}

(* a list of `count` keypoints as _extract_landmarks builds it (417-429): the
   hips at mid-frame, the shoulders off them by `offset`, visibility[1..4]
   those of the left and right shoulder and the left and right hip; the other
   keypoints play no part in 458-550 *)
Keypoints(count, offset, visibility) ==
  [i \in 1..count |->
     CASE i = LandmarkIndex.LEFT_SHOULDER
            -> PoseLandmark(46 + offset[1], 60 + offset[2], visibility[1])
       [] i = LandmarkIndex.RIGHT_SHOULDER
            -> PoseLandmark(54 + offset[1], 60 + offset[2], visibility[2])
       [] i = LandmarkIndex.LEFT_HIP -> PoseLandmark(46, 60, visibility[3])
       [] i = LandmarkIndex.RIGHT_HIP -> PoseLandmark(54, 60, visibility[4])
       [] OTHER -> PoseLandmark(50, 50, 0)]

(* ---- _classify_state on its own: every whole angle from 0 to 90 and no
   angle, with every place of the shoulders ---- *)
ClassifyAngles == {NoValue} \cup {Some(a) : a \in 0..90}

ClassifyKeypoints ==
  {Keypoints(33, offset, <<90, 90, 90, 90>>) : offset \in TorsoOffsets}

ClassifyNext ==
  \E keypoints \in ClassifyKeypoints :
    \E angle \in ClassifyAngles : ClassifyState(keypoints, angle)

ClassifySpec == PipelineInit /\ [][ClassifyNext]_vars

(* ---- process_frame on frames given by their keypoints: one person, whose
   keypoint list is cut short (24 entries), just long enough (25) or whole
   (33), with the four torso keypoints well visible, at the threshold, or one
   or all of them just below it, a frame every half second ---- *)
TorsoVisibilities ==
  {<<90, 90, 90, 90>>, <<50, 50, 50, 50>>, <<49, 90, 90, 90>>,
   <<90, 49, 90, 90>>, <<90, 90, 49, 90>>, <<90, 90, 90, 49>>,
   <<49, 49, 49, 49>>}

KeypointSets ==
  {Keypoints(count, offset, visibility) :
     count \in {24, 25, 33}, offset \in TorsoOffsets,
     visibility \in TorsoVisibilities}

KeypointNext ==
  /\ frame_count < MaxKeypointFrames
  /\ \E keypoints \in KeypointSets : ProcessLandmarks("cam1", <<keypoints>>, 1)

KeypointSpec == PipelineInit /\ [][KeypointNext]_vars

(* ---- persons at the edge of the picture: the landmarker places the
   keypoints it cannot see where it expects them, also outside the picture
   (normalized coordinates below 0 and above 1) ---- *)

(* the keypoints moved by (dx, dy) hundredths of the frame *)
Shifted(keypoints, dx, dy) ==
  [i \in 1..Len(keypoints) |->
     PoseLandmark(keypoints[i].x + dx, keypoints[i].y + dy,
                  keypoints[i].visibility)]

BoxShifts == {-60, 0, 60}

(* a person upright, lying, or seen from above, with the torso well visible
   or no keypoint above the 0.3 of line 437, in the picture or moved out of
   it to either side, upwards or downwards *)
BoxKeypointSets ==
  {Shifted(Keypoints(33, offset, visibility), dx, dy) :
     offset \in {<<0, -20>>, <<20, 0>>, <<0, 0>>},
     visibility \in {<<90, 90, 90, 90>>, <<20, 20, 20, 20>>},
     dx \in BoxShifts, dy \in BoxShifts}

(* frames with one person, or with a person standing in the picture and a
   second one anywhere, half a second apart *)
BoxNext ==
  /\ frame_count < MaxBoxFrames
  /\ \E keypoints \in BoxKeypointSets :
       \/ ProcessLandmarks("cam1", <<keypoints>>, 1)
       \/ ProcessLandmarks("cam1",
                           <<Keypoints(33, <<0, -20>>, <<90, 90, 90, 90>>),
                             keypoints>>, 1)

BoxSpec == PipelineInit /\ [][BoxNext]_vars

(* what the landmarker reports of a person in a room: standing, sitting,
   lying, and the shoulders or the hips out of sight *)
FallPoses ==
  {Pose(Some(10), Some(50), TRUE),
   Pose(Some(30), Some(50), TRUE),
   Pose(Some(60), Some(90), TRUE),
   Pose(NoValue, Some(50), TRUE),
   Pose(NoValue, NoValue, TRUE)}

(* frames of one camera with one person in view, processed at once or 1.5
   seconds after the frame before *)
FallGaps == {0, 3}

FallNext ==
  /\ frame_count < MaxFrameCount
  /\ \E p \in FallPoses :
       \E gap \in FallGaps : ProcessFrame("cam1", <<p>>, gap)

FallSpec == PipelineInit /\ [][FallNext]_vars

(* a person standing, sitting or lying flat, seen at once, half a second,
   2.5 seconds or 5 seconds after the frame before *)
ScenarioPoses ==
  {Pose(Some(10), Some(50), TRUE),
   Pose(Some(30), Some(50), TRUE),
   Pose(Some(75), Some(70), TRUE)}

ScenarioGaps == {0, 1, 5, 10}

ScenarioNext ==
  /\ frame_count < MaxFrameCount
  /\ \E p \in ScenarioPoses :
       \E gap \in ScenarioGaps : ProcessFrame("cam1", <<p>>, gap)

ScenarioSpec == PipelineInit /\ [][ScenarioNext]_vars

(* a person standing or lying flat, or nobody in view, and frames at once,
   half a second or 5 seconds apart *)
CooldownPoses ==
  {Pose(Some(10), Some(50), TRUE),
   Pose(Some(75), Some(70), TRUE)}

CooldownGaps == {0, 1, 10}

(* the pipeline of a deployment with the shortest or the default cooldown *)
CooldownInit ==
  /\ InitCommon
  /\ DetInit
  /\ rtsp_max_reconnect_attempts = DefaultMaxAttempts
  /\ callback_outcomes = {FALSE}
  /\ fall_alert_cooldown \in {MinCooldown, DefaultCooldown}
  /\ exists = [s \in Sessions |-> s = 1]
  /\ camera_id = [s \in Sessions |-> IF s = 1 THEN "cam1" ELSE None]
  /\ clients = [k \in Cameras |-> 1]

CooldownNext ==
  /\ frame_count < MaxFrameCount
  /\ \E poses \in {<<>>} \cup {<<p>> : p \in CooldownPoses} :
       \E gap \in CooldownGaps : ProcessFrame("cam1", poses, gap)

CooldownSpec == CooldownInit /\ [][CooldownNext]_vars

(* two consumers of one camera with one or two persons in view, standing or
   lying flat; a frame is taken half a second or five seconds after the step
   before, a send takes no time or half a second *)
NotifyGaps == {1, 10}

NotifyNext ==
  \/ /\ frame_count < MaxNotifyFrames
     /\ \E c \in Consumers : \E poses \in IdentityFrames : \E gap \in NotifyGaps :
          ConsumeFrame(c, "cam1", poses, gap)
  \/ \E c \in Consumers : \E success \in BOOLEAN : \E gap \in {0, 1} :
       SendDone(c, "cam1", success, gap)

NotifySpec == CooldownInit /\ [][NotifyNext]_vars

(* a person going from standing through sitting to lying flat, sampled every
   half second or every 2 seconds *)
SlowGaps == {1, 4}

SlowNext ==
  /\ frame_count < MaxSlowFrameCount
  /\ \E p \in ScenarioPoses :
       \E gap \in SlowGaps : ProcessFrame("cam1", <<p>>, gap)

SlowSpec == PipelineInit /\ [][SlowNext]_vars

(* ======================= the session's claims ======================= *)

(* The session is STREAMING with a live worker, nobody asked it to stop, and
   it holds no connection *)
StreamingWithoutConnection(s) ==
  /\ state[s] = "STREAMING"
  /\ capture[s] = None
  /\ running[s]
  /\ LiveWorkers(s) # {}

(* C1: after a failed read in STREAMING with no stop requested (frames_dropped
   counted, connection released) the session goes on to a reconnect attempt:
   it leaves STREAMING for RECONNECTING/CONNECTING or ERROR, and does not stay
   in STREAMING without a connection for ever. *)
C1_FailedReadLeadsToReconnect ==
  \A s \in Sessions :
    (frames_dropped[s] > 0 /\ StreamingWithoutConnection(s))
      ~> (state[s] \in {"RECONNECTING", "CONNECTING", "ERROR"} \/ ~running[s])

(* C2: a worker never makes more than rtsp_max_reconnect_attempts failed
   connect attempts in a row, and once it has made that many it is neither in
   a backoff wait nor in a connect attempt again. *)
C2_BoundedRetries ==
  \A w \in Workers :
    /\ failed_connects[w] <= rtsp_max_reconnect_attempts
    /\ failed_connects[w] >= rtsp_max_reconnect_attempts
         => wpc[w] \notin {"sleep", "connect", "poll"}

(* a worker has used up its attempts and has given up *)
C2_Witness ==
  \E w \in Workers :
    /\ failed_connects[w] = rtsp_max_reconnect_attempts
    /\ wpc[w] = "exit"
    /\ state[wsess[w]] = "ERROR"
    /\ error_message[wsess[w]] = "max_attempts"

(* C3: once the retries are used up, the state is ERROR with an error message
   and both stay so in every step taken while no caller has issued a command
   (every caller idle before and after the step, no stop requested). *)
C3_FailedIsTerminal ==
  [][\A s \in Sessions :
       (/\ state[s] = "ERROR"
        /\ error_message[s] = "max_attempts"
        /\ running[s]
        /\ \A c \in Callers : cpc[c] = "idle" /\ cpc'[c] = "idle")
       => (state'[s] = "ERROR" /\ error_message'[s] # None)]_vars

(* C4: the wait before the n-th retry since the last successful connect is
   min(base * 2^(n-1), 60): base, 2*base, 4*base, ... *)
C4_DelaySequence ==
  \A w \in Workers :
    wpc[w] = "sleep"
      => delay[w] = Min(rtsp_reconnect_delay * Pow2(retries[w] - 1), MaxDelay)

(* C5: when stop() returns, the session is DISCONNECTED and holds no
   connection. *)
C5_StopLeavesDisconnected ==
  [][\A c \in Callers :
       (cpc[c] = "p140" /\ cpc'[c] # "p140")
       => (state'[csess[c]] = "DISCONNECTED" /\ capture'[csess[c]] = None)]_vars

(* C6: at most one worker executes the read loop of a session. *)
C6_OneWorker ==
  \A s \in Sessions : Cardinality(LiveWorkers(s)) <= 1

(* the transition table of the session's state *)
TransitionTable ==
  {<<"DISCONNECTED", "CONNECTING">>, <<"CONNECTING", "CONNECTED">>,
   <<"CONNECTED", "STREAMING">>, <<"CONNECTING", "ERROR">>,
   <<"STREAMING", "RECONNECTING">>, <<"STREAMING", "ERROR">>,
   <<"ERROR", "RECONNECTING">>, <<"RECONNECTING", "CONNECTING">>}
  \cup {<<st, "DISCONNECTED">> : st \in StreamState}

(* C10: every change of a session's state is a transition of the table. *)
C10_OnlyTableTransitions ==
  [][\A s \in Sessions :
       state'[s] # state[s] => <<state[s], state'[s]>> \in TransitionTable]_vars

(* ======================= the registry's claims ======================= *)

(* A session is live: a worker runs its loop, or it holds a connection *)
Live(s) == LiveWorkers(s) # {} \/ capture[s] # None

(* C7: at any time at most one session per camera id is live (has a running
   worker or an open connection). *)
C7_OneLiveSessionPerCamera ==
  \A k \in Cameras :
    Cardinality({s \in Sessions : exists[s] /\ camera_id[s] = k /\ Live(s)}) <= 1

(* C8: create_client on an id that has a session stops it: from the moment the
   new session has entered CONNECTING (left DISCONNECTED) the prior session is
   DISCONNECTED, and the registry does not map the id to the prior session. *)
C8_PriorEndsDisconnected ==
  \A s \in Sessions :
    (replaced_by[s] # 0 /\ state[replaced_by[s]] # "DISCONNECTED")
      => (state[s] = "DISCONNECTED" /\ get_client(camera_id[s]) # s)

(* C9: after remove_client(id), and until the next create_client(id),
   get_client(id) is absent, whether or not the id had a session, and stop()
   has run to its return on the session that was removed. *)
C9_RemoveThenGetAbsent ==
  \A k \in Cameras :
    removed[k] # -1
      => /\ get_client(k) = 0
         /\ removed[k] > 0 => stopped[removed[k]]

(* remove_client has deleted the session registered for an id *)
C9_Witness ==
  \E k \in Cameras :
    /\ removed[k] > 0
    /\ get_client(k) = 0
    /\ stopped[removed[k]]

(* ================== the claims on frames and callbacks ================== *)

(* C11: with frame_skip = N > 0 only every (N+1)th decoded frame reaches the
   consumers: on_frame has been called for frames_received \div (N+1) frames
   and the latest-frame slot holds a frame whose number is a multiple of
   N+1 (or nothing), while frames_received counts every decoded frame. *)
C11_FrameSkipForwarding ==
  \A s \in Sessions :
    /\ frames_forwarded[s] = frames_received[s] \div (frame_skip + 1)
    /\ last_frame[s] % (frame_skip + 1) = 0

(* the values _error_message takes *)
ErrorMessages == {None, "max_attempts", "connect_failed"}

(* C12: a step in which on_frame or on_state_change raises changes the state,
   the reconnect-attempt counter, the statistics and the latest frame as the
   same step with a callback that returns, and ends no worker. *)
C12_CallbackFailureContained ==
  [][/\ \A w \in Workers :
          ReadOkWith(w, TRUE)
            => /\ frames_received'[wsess[w]] = frames_received[wsess[w]] + 1
               /\ last_frame'[wsess[w]] = frames_received[wsess[w]] + 1
               /\ frames_dropped' = frames_dropped
               /\ state' = state
               /\ error_message' = error_message
               /\ capture' = capture
               /\ reconnect_attempts' = reconnect_attempts
               /\ wpc'[w] = "L199"
     /\ \A s \in Sessions : \A st \in StreamState : \A err \in ErrorMessages :
          set_state_with(s, st, err, TRUE)
            => (state'[s] = st /\ error_message'[s] = err)
     /\ (callback_error' /\ ~callback_error)
          => \A w \in Workers : wpc'[w] = "done" => wpc[w] \in {"exit", "done"}
    ]_vars

(* a callback has raised, and the worker that read the frame is back at the
   head of its loop with the frame counted and stored *)
C12_Witness ==
  /\ callback_error
  /\ \E w \in Workers :
       /\ wpc[w] = "L199"
       /\ state[wsess[w]] = "STREAMING"
       /\ frames_received[wsess[w]] > 0
       /\ last_frame[wsess[w]] = frames_received[wsess[w]]

(* C13: after every successful decode the latest-frame slot is empty or holds
   the frame just decoded: the frame _connect decodes at line 174 is stored
   nowhere, so after it the slot must be empty; the frame the loop decodes at
   line 234 is the one in the slot. *)
C13_LatestFrameIsLastDecode ==
  [][\A w \in Workers :
       /\ ConnectOk(w) => last_frame'[wsess[w]] = 0
       /\ ReadOk(w) => last_frame'[wsess[w]] = frames_received'[wsess[w]]
    ]_vars

(* the workers of session s that execute _stream_loop after the step *)
LiveWorkersNext(s) ==
  {w \in Workers : wsess'[w] = s /\ wpc'[w] \notin {"unborn", "done"}}

(* C15: start() returns False (line 122) only on a session whose worker is
   running, and then creates no worker and changes nothing; it returns True
   (line 128) only on a session with no running worker, and then has started
   exactly one worker. *)
C15_StartResult ==
  [][\A c \in Callers :
       /\ (cpc[c] = "idle" /\ cpc'[c] = "s121")
            => LiveWorkers(csess'[c]) # {}
       /\ (cpc[c] = "idle" /\ cpc'[c] = "s124")
            => LiveWorkers(csess'[c]) = {}
       /\ (cpc[c] = "s121" /\ cpc'[c] = "idle")
            => UNCHANGED <<sessVars, workerVars>>
       /\ (cpc[c] = "s124" /\ cpc'[c] = "idle")
            => Cardinality(LiveWorkersNext(csess[c]))
                 = Cardinality(LiveWorkers(csess[c])) + 1
    ]_vars

(* ======================= the claim on locking ======================= *)

(* the fields of the session a reader reads *)
sharedFields == <<state, error_message, frames_received, last_frame>>

(* the (state, error) pairs a complete _set_state leaves *)
ConsistentPairs ==
  {<<st, None>> : st \in StreamState \ {"ERROR"}}
    \cup {<<"ERROR", e>> : e \in {"connect_failed", "max_attempts"}}

(* C14: every worker write of state, error message, statistics and latest
   frame is made holding the session's lock, every read of them by another
   thread is made holding it, and no read happens while a worker update is
   partially applied. *)
C14_AccessUnderLock ==
  [][/\ sharedFields' # sharedFields => slock = "worker"
     /\ <<seen_state, seen_error, seen_frame>>' # <<seen_state, seen_error, seen_frame>>
          => slock = "reader"
     /\ rpc' # rpc
          => <<state[LockSession], error_message[LockSession]>> \in ConsistentPairs
    ]_vars

(* a reader of get_all_stats has read state "error" and then error None: the
   _set_state(ERROR, message) it interleaved with had assigned only _state *)
C14_TornRead ==
  /\ rpc = "seen"
  /\ seen_state = "ERROR"
  /\ seen_error = None

(* ===================== the detection pipeline's claims ===================== *)

(* the PersonDetection of identity k in the result of the call just made is
   classified Falling *)
Falling(k) ==
  \E i \in 1..Len(persons) : persons[i].id = k /\ persons[i].state = "FALLING"

(* C16: for every identity, an observation classified Falling comes at least
   fall_alert_cooldown seconds after the one classified Falling before it: a
   sequence that qualifies as a fall inside the cooldown signals no fall *)
C16_FallsCooldownApart ==
  [][\A k \in TrackerKeys :
       (Falling(k)' /\ person_trackers[k].fall_detected_time # NoValue)
         => now' - person_trackers[k].fall_detected_time[1]
              >= fall_alert_cooldown * TicksPerSecond]_vars

(* A fall was confirmed 5 seconds ago under a 30-second cooldown, and the
   observation just made, which every other rule of the decision accepts as a
   fall, is reported as Lying *)
C16_Witness ==
  \E k \in TrackerKeys :
    LET tr == person_trackers[k]
    IN /\ fall_alert_cooldown = 30
       /\ tr.fall_detected_time # NoValue
       /\ now - tr.fall_detected_time[1] = 5 * TicksPerSecond
       /\ Len(persons) = 1
       /\ persons[1].state = "LYING"
       /\ tr.state_history[Len(tr.state_history)][1] = now
       /\ is_fall("LYING", [tr EXCEPT !.fall_cooldown_until = 0],
                  persons[1].body_angle, now)

(* a Standing or Sitting sample of the history h lies within 2.5 seconds of t *)
RecentlyUpright(h, t) ==
  \E i \in 1..Len(h) :
    /\ h[i][2] \in {"STANDING", "SITTING"}
    /\ 2 * (t - h[i][1]) <= 5 * TicksPerSecond

(* h has five samples or more and one of the first three of its last five is
   Standing *)
StandingAmongEarliest3Of5(h) ==
  /\ Len(h) >= 5
  /\ \E i \in (Len(h) - 4)..(Len(h) - 2) : h[i][2] = "STANDING"

(* C17: an observation is confirmed as a fall exactly when the track is not
   within its cooldown, the posture is Lying, the track was upright within the
   last 2.5 seconds, the body angle if defined is at least 50 degrees, and one
   of rapid descent (velocity > 0.2), rapid angle change (> 30 degrees a
   second) or the rule of a Standing sample among the earliest 3 of the last
   5 holds *)
C17_FallIffAllRules ==
  [][\A p \in {q \in FallPoses : q.body_angle = persons'[1].body_angle} :
       ProcessFrame("cam1", <<p>>, now' - now) =>
         LET k == <<"cam1", 0>>
             tr == person_trackers'[k]
         IN (persons'[1].state = "FALLING") <=>
              /\ ~(now' < person_trackers[k].fall_cooldown_until)
              /\ classify_state(p)[1] = "LYING"
              /\ RecentlyUpright(tr.state_history, now')
              /\ (p.body_angle # NoValue => p.body_angle[1] >= 50)
              /\ \/ detect_rapid_descent(tr, 20)
                 \/ rapid_angle_change(tr)
                 \/ StandingAmongEarliest3Of5(tr.state_history)]_vars

(* A fall has just been confirmed by the rule of the last five samples alone:
   neither rapid descent nor rapid angle change *)
C17_Witness ==
  \E k \in TrackerKeys :
    LET tr == person_trackers[k]
    IN /\ Falling(k)
       /\ tr.fall_detected_time = Some(now)
       /\ ~detect_rapid_descent(tr, 20)
       /\ ~rapid_angle_change(tr)
       /\ StandingAmongEarliest3Of5(tr.state_history)

(* The track holds exactly the five samples of the scenario, all the frames
   processed so far: three Standing at 10 degrees, then two Lying at 75
   degrees, no more than a second from first to last, the descent velocity
   measured at the last one 0.4; the fifth is the observation just made *)
FiveSampleFall(tr) ==
  LET h == tr.state_history
      velocity == get_vertical_velocity(tr)
  IN /\ frame_count = 5
     /\ Len(h) = 5
     /\ \A i \in 1..3 : h[i][2] = "STANDING" /\ h[i][3] = Some(10)
     /\ \A i \in 4..5 : h[i][2] = "LYING" /\ h[i][3] = Some(75)
     /\ h[5][1] - h[1][1] <= TicksPerSecond
     /\ h[5][1] = now
     /\ velocity # NoValue
     /\ velocity[1] * TicksPerSecond = 40 * velocity[2]

(* the track as it was when its n-th sample had been recorded and the
   decision on it was due, no fall having been confirmed before *)
AtSample(tr, n) ==
  [tr EXCEPT !.state_history = SubSeq(@, 1, n),
             !.position_history = SubSeq(@, 1, n),
             !.fall_detected_time = NoValue,
             !.fall_cooldown_until = 0]

(* C18 as stated: after three Standing observations (10 degrees) and two
   Lying ones (75 degrees) within a second, descent velocity 0.4, the fifth
   observation is classified Falling with confidence >= 0.85 *)
C18_FifthIsFalling ==
  \A k \in TrackerKeys :
    FiveSampleFall(person_trackers[k]) =>
      /\ persons[1].state = "FALLING"
      /\ persons[1].confidence >= 85

(* C18, amended: in that sequence exactly one of the two Lying observations
   is confirmed as the fall.  It is the fourth whenever the decision already
   accepts the fourth, and the fifth is then inside the cooldown and reported
   Lying; otherwise it is the fifth, classified Falling with confidence
   >= 0.85 *)
C18_OneLyingObservationFalls ==
  \A k \in TrackerKeys :
    LET tr == person_trackers[k]
        h == tr.state_history
    IN FiveSampleFall(tr) =>
         IF is_fall("LYING", AtSample(tr, 4), h[4][3], h[4][1])
           THEN /\ persons[1].state = "LYING"
                /\ tr.fall_detected_time = Some(h[4][1])
           ELSE /\ persons[1].state = "FALLING"
                /\ persons[1].confidence >= 85
                /\ tr.fall_detected_time = Some(now)

(* The sequence of the scenario has been fed, the fall was confirmed at the
   fourth observation and the fifth is reported Lying *)
C18_Witness ==
  \E k \in TrackerKeys :
    /\ FiveSampleFall(person_trackers[k])
    /\ persons[1].state = "LYING"
    /\ person_trackers[k].fall_detected_time # NoValue

(* The samples of the track, all the frames processed so far, are those of a
   person lying down slowly: the angle starts at 10 degrees and never
   decreases; at every sample the velocity, where one is measured, is below
   0.1 and the angle-change rate, where one is measured, is not above 30
   degrees a second; and when the posture first becomes Lying there is no
   Standing sample among the earliest 3 of the most recent 5 *)
LyingDownSlowly(tr) ==
  LET h == tr.state_history
      lying == {n \in 1..Len(h) : h[n][2] = "LYING"}
  IN /\ Len(h) = frame_count
     /\ Len(h) >= 1
     /\ h[1][3] = Some(10)
     /\ \A n \in 1..Len(h) : h[n][3] # NoValue
     /\ \A n \in 2..Len(h) : h[n][3][1] >= h[n - 1][3][1]
     /\ \A n \in 1..Len(h) :
          LET velocity == get_vertical_velocity(AtSample(tr, n))
              rate == get_angle_change_rate(AtSample(tr, n))
          IN /\ velocity # NoValue =>
                  10 * velocity[1] * TicksPerSecond < 100 * velocity[2]
             /\ rate # NoValue => rate[1] * TicksPerSecond <= 30 * rate[2]
     /\ \A n \in lying :
          (\A j \in lying : n <= j) =>
            \A i \in 1..3 :
              i <= Len(LastN(SubSeq(h, 1, n), 5)) =>
                LastN(SubSeq(h, 1, n), 5)[i][2] # "STANDING"

(* C19: a person lying down slowly (angle rising from 10 degrees, velocity
   below 0.1 and angle-change rate at most 30 degrees a second throughout, no
   Standing sample among the earliest 3 of the most recent 5 when the posture
   becomes Lying) is classified Falling at no observation of the sequence *)
C19_SlowLyingDownIsNoFall ==
  \A k \in TrackerKeys :
    LyingDownSlowly(person_trackers[k]) =>
      /\ ~Falling(k)
      /\ person_trackers[k].fall_detected_time = NoValue

(* The person has gone from 10 to 75 degrees in 10 seconds, slowly in the
   sense above, was upright within the last 2.5 seconds and is now Lying *)
C19_Witness ==
  \E k \in TrackerKeys :
    LET h == person_trackers[k].state_history
    IN /\ LyingDownSlowly(person_trackers[k])
       /\ h[Len(h)][3] = Some(75)
       /\ h[Len(h)][1] - h[1][1] = 10 * TicksPerSecond
       /\ h[Len(h)][1] = now
       /\ RecentlyUpright(h, now)
       /\ persons[1].state = "LYING"

(* C20: an observation emitted as Falling has confidence >= 0.85 and its
   processing sets the track's fall_cooldown_until to the time of the
   confirmation plus fall_alert_cooldown seconds; an observation that is not
   confirmed as a fall leaves fall_cooldown_until as it was *)
C20_FallingConfidenceAndCooldown ==
  [][\A i \in 1..Len(persons') :
       LET k == persons'[i].id
       IN IF persons'[i].state = "FALLING"
            THEN /\ persons'[i].confidence >= 85
                 /\ person_trackers'[k].fall_cooldown_until
                      = now' + fall_alert_cooldown * TicksPerSecond
            ELSE person_trackers'[k].fall_cooldown_until
                   = person_trackers[k].fall_cooldown_until]_vars

(* A fall has just been confirmed on a pose classified Lying with confidence
   0.8: it is emitted with 0.85 and the cooldown runs from now *)
C20_Witness ==
  \E k \in TrackerKeys :
    /\ Falling(k)
    /\ persons[1].body_angle = Some(60)
    /\ persons[1].confidence = 85
    /\ person_trackers[k].fall_cooldown_until
         = now + fall_alert_cooldown * TicksPerSecond
(* ================= the claims on classification ================= *)

(* the shoulders' midpoint is higher in the frame than the hips' midpoint *)
ShouldersHigher(keypoints) ==
  keypoints[LandmarkIndex.LEFT_SHOULDER].y + keypoints[LandmarkIndex.RIGHT_SHOULDER].y
    < keypoints[LandmarkIndex.LEFT_HIP].y + keypoints[LandmarkIndex.RIGHT_HIP].y

(* C21: whatever the body angle and wherever the shoulders are, the
   classification is the one of the table: no angle -> (Unknown, 0.3); below
   25 -> (Standing, 0.9); from 25 and below 50 -> (Sitting, 0.75) with the
   shoulders above the hips and (Lying, 0.6) otherwise; from 50 and below 70
   -> (Lying, 0.8); from 70 -> (Lying, 0.9). *)
C21_ClassificationTable ==
  classified # NoValue =>
    IF angle_arg = NoValue THEN classified = <<"UNKNOWN", 30>>
    ELSE LET angle == angle_arg[1]
             above == ShouldersHigher(pose_landmarks[1])
         IN /\ angle \in 0..24 => classified = <<"STANDING", 90>>
            /\ (angle \in 25..49 /\ above) => classified = <<"SITTING", 75>>
            /\ (angle \in 25..49 /\ ~above) => classified = <<"LYING", 60>>
            /\ angle \in 50..69 => classified = <<"LYING", 80>>
            /\ angle >= 70 => classified = <<"LYING", 90>>

(* an angle of exactly 25 with the shoulders below the hips has been
   classified, as Lying with 0.6 *)
C21_Witness ==
  /\ classified = <<"LYING", 60>>
  /\ angle_arg = Some(25)
  /\ ~ShouldersHigher(pose_landmarks[1])

(* one of the two shoulders and two hips of a keypoint list is missing (the
   list has fewer than 25 entries) or has visibility < 0.5 *)
TorsoNotSeen(keypoints) ==
  \/ Len(keypoints) < 25
  \/ \E i \in {LandmarkIndex.LEFT_SHOULDER, LandmarkIndex.RIGHT_SHOULDER,
               LandmarkIndex.LEFT_HIP, LandmarkIndex.RIGHT_HIP} :
       keypoints[i].visibility < 50

(* C22: the body angle computed for a keypoint set is undefined or a value in
   [0, 90], and it is undefined exactly when fewer than 25 keypoints are given
   or one of the two shoulders and two hips has visibility < 0.5. *)
C22_BodyAngleDefinedAndBounded ==
  \A i \in 1..Len(pose_landmarks) :
    i <= Len(persons) =>
      /\ persons[i].body_angle = NoValue <=> TorsoNotSeen(pose_landmarks[i])
      /\ persons[i].body_angle # NoValue
           => persons[i].body_angle[1] >= 0 /\ persons[i].body_angle[1] <= 90

(* a whole keypoint list whose right hip alone is just below the threshold has
   got no angle, and in another state shoulders lower than the hips an angle
   of 90: the first is the state asked for here *)
C22_Witness ==
  /\ Len(pose_landmarks) = 1 /\ Len(persons) = 1
  /\ Len(pose_landmarks[1]) = 33
  /\ pose_landmarks[1][LandmarkIndex.RIGHT_HIP].visibility = 49
  /\ pose_landmarks[1][LandmarkIndex.LEFT_HIP].visibility = 90
  /\ pose_landmarks[1][LandmarkIndex.LEFT_SHOULDER].visibility = 90
  /\ pose_landmarks[1][LandmarkIndex.RIGHT_SHOULDER].visibility = 90
  /\ persons[1].body_angle = NoValue

(* ================= the claims on the track's histories ================= *)

(* the entries of a history are in the order of their times *)
TimeOrdered(h) == \A i \in 1..Len(h) : \A j \in i..Len(h) : h[i][1] <= h[j][1]

(* C23: whatever the number of observations on a track, the posture/angle
   history holds at most 30 samples and the position history at most 15; an
   observation's samples go to the end of both, ahead of them stay the most
   recent earlier samples in their order, and the oldest is dropped from a
   full history; the samples are in time order. *)
C23_HistoriesBoundedAndRecent ==
  [][\A k \in TrackerKeys :
       LET h == person_trackers[k].state_history
           p == person_trackers[k].position_history
           h2 == person_trackers'[k].state_history
           p2 == person_trackers'[k].position_history
       IN /\ Len(h2) <= 30 /\ Len(p2) <= 15
          /\ TimeOrdered(h2) /\ TimeOrdered(p2)
          /\ \/ h2 = h /\ p2 = p
             \/ /\ h2 # <<>> /\ p2 # <<>>
                /\ h2[Len(h2)][1] = now' /\ p2[Len(p2)][1] = now'
                /\ h2 = LastN(Append(h, h2[Len(h2)]), 30)
                /\ p2 = LastN(Append(p, p2[Len(p2)]), 15)
    ]_vars

(* a track has had more than 30 observations: both histories are full and the
   earliest sample of each is gone, the position history holding the last 15
   of the times the posture history holds *)
C23_Witness ==
  \E k \in TrackerKeys :
    LET h == person_trackers[k].state_history
        p == person_trackers[k].position_history
    IN /\ Len(h) = 30 /\ Len(p) = 15
       /\ h[1][1] > 1
       /\ p[1][1] = h[16][1]
       /\ p[15][1] = h[30][1]

(* C24: a person whose shoulder or hip keypoints are missing or have
   visibility < 0.5 is processed like any other (the frame's result has an
   observation for each pose), and the observation is Unknown with confidence
   0.3: it is never Falling. *)
C24_HiddenTorsoIsUnknown ==
  /\ pose_landmarks # <<>> => Len(persons) = Len(pose_landmarks)
  /\ \A i \in 1..Len(pose_landmarks) :
       (i <= Len(persons) /\ TorsoNotSeen(pose_landmarks[i]))
         => persons[i].state = "UNKNOWN" /\ persons[i].confidence = 30

(* a person seen standing, then lying flat half a second later, then with a
   shoulder hidden: the last observation is Unknown with 0.3, recorded after a
   Standing and a Lying sample *)
C24_Witness ==
  /\ Len(pose_landmarks) = 1 /\ Len(persons) = 1
  /\ TorsoNotSeen(pose_landmarks[1])
  /\ persons[1].state = "UNKNOWN" /\ persons[1].confidence = 30
  /\ LET h == person_trackers[persons[1].id].state_history
     IN /\ Len(h) = 3
        /\ h[1][2] = "STANDING" /\ h[2][2] = "LYING" /\ h[3][2] = "UNKNOWN"
        /\ h[2][3] = Some(90)

(* ================= the claim on the estimator's timestamps ================= *)

(* C25 as stated: the timestamp detect_for_video gets with a frame of a camera
   is greater than the one it got with the previous frame of the same camera,
   and is exactly that one + 1 when the clock's reading is not greater than
   it. *)
C25_PerCameraSuccessor ==
  [][\A camera \in PipelineCameras :
       (passed_ms'[camera] # passed_ms[camera] /\ passed_ms[camera] # NoValue)
         => /\ passed_ms'[camera][1] > passed_ms[camera][1]
            /\ time_ms(now') <= passed_ms[camera][1]
                 => passed_ms'[camera][1] = passed_ms[camera][1] + 1
    ]_vars

(* C25, amended: the timestamp detect_for_video gets is greater than the one
   of the pipeline's previous call, whichever camera that was for, hence
   greater than the one of the previous call for the same camera; when the
   clock's reading is not greater than the timestamp of the pipeline's
   previous call, it is exactly that timestamp + 1, and otherwise it is the
   reading. *)
C25_StrictlyIncreasingTimestamps ==
  [][frame_count' # frame_count =>
       /\ last_timestamp_ms' > last_timestamp_ms
       /\ \A camera \in PipelineCameras :
            passed_ms'[camera] # passed_ms[camera]
              => /\ passed_ms'[camera] = Some(last_timestamp_ms')
                 /\ passed_ms[camera] # NoValue
                      => passed_ms'[camera][1] > passed_ms[camera][1]
       /\ \E camera \in PipelineCameras : passed_ms'[camera] # passed_ms[camera]
       /\ IF time_ms(now') <= last_timestamp_ms
            THEN last_timestamp_ms' = last_timestamp_ms + 1
            ELSE last_timestamp_ms' = time_ms(now')
    ]_vars

(* frames of both cameras have been processed within one millisecond: the
   last timestamp is two past the clock's reading *)
C25_Witness ==
  /\ passed_ms["cam1"] # NoValue
  /\ passed_ms["cam2"] # NoValue
  /\ last_timestamp_ms = time_ms(now) + 2

(* ================= the claims on retrying and restarting ================= *)

(* no stop() has been called on the session so far: none has returned and
   none is under way *)
NoStopYet(s) ==
  /\ ~stopped[s]
  /\ \A c \in Callers : cpc[c] \in {"p134", "p137", "p138", "p140"} => csess[c] # s

(* C26: a backoff wait lasts min(base * 2^k, 60) seconds, k being the failed
   connects of the worker since its last successful one, and so at most 60;
   unless a stop command intervenes, the session is RECONNECTING for the whole
   wait and until _connect() is entered, and CONNECTING once it is. *)
C26_BackoffWait ==
  \A w \in Workers :
    /\ wpc[w] = "sleep" => delay[w] <= 60
    /\ (wpc[w] = "sleep" /\ NoStopYet(wsess[w]))
         => /\ delay[w] = IF rtsp_reconnect_delay * (2 ^ failed_connects[w]) <= 60
                            THEN rtsp_reconnect_delay * (2 ^ failed_connects[w])
                            ELSE 60
            /\ state[wsess[w]] = "RECONNECTING"
    /\ (wpc[w] = "connect" /\ retries[w] > 0 /\ NoStopYet(wsess[w]))
         => state[wsess[w]] = "RECONNECTING"
    /\ (wpc[w] = "poll" /\ NoStopYet(wsess[w]))
         => state[wsess[w]] = "CONNECTING"

(* a worker waits the capped 60 seconds after four failed connects, its
   session RECONNECTING and never stopped *)
C26_Witness ==
  \E w \in Workers :
    /\ wpc[w] = "sleep"
    /\ failed_connects[w] = 4
    /\ delay[w] = 60
    /\ state[wsess[w]] = "RECONNECTING"
    /\ NoStopYet(wsess[w])

(* C27: start() called on a session that is in the Failed state after its
   retries were used up (ERROR, "max attempts reached") is accepted: it goes
   on past the test of line 120 to start a worker, whose attempts count from
   0 and whose first step on the connection is a Connecting attempt. *)
C27_RestartFromFailed ==
  [][\A c \in Callers :
       (/\ cpc[c] = "idle" /\ cpc'[c] \in {"s121", "s124"}
        /\ state[csess'[c]] = "ERROR"
        /\ error_message[csess'[c]] = "max_attempts")
         => cpc'[c] = "s124"
    ]_vars

(* ================= the claims on what an observation records ================= *)

(* C28: an observation recorded on a track sets the track's last-upright time
   (last_standing_time) to the observation's time when its posture is Standing
   or Sitting, and leaves it as it was when the posture is Lying or Unknown. *)
C28_LastUprightTime ==
  [][\A k \in TrackerKeys :
       LET h == person_trackers[k].state_history
           h2 == person_trackers'[k].state_history
       IN Len(h2) = Len(h) + 1 =>
            /\ h2[Len(h2)][2] \in {"STANDING", "SITTING"}
                 => person_trackers'[k].last_standing_time = h2[Len(h2)][1]
            /\ h2[Len(h2)][2] \in {"LYING", "UNKNOWN"}
                 => person_trackers'[k].last_standing_time
                      = person_trackers[k].last_standing_time
    ]_vars

(* C29: every person observation of a frame appends exactly one (time,
   posture, angle) sample to the posture history and one (time, hip height)
   sample to the position history of the track of its identity, whatever the
   posture, Unknown included. *)
C29_EveryObservationRecorded ==
  [][frame_count' # frame_count =>
       \A i \in 1..Len(persons') :
         LET k == persons'[i].id
             h == person_trackers[k].state_history
             p == person_trackers[k].position_history
             h2 == person_trackers'[k].state_history
             p2 == person_trackers'[k].position_history
         IN /\ Len(h2) = Len(h) + 1
            /\ Len(p2) = Len(p) + 1
            /\ h2[Len(h2)][1] = now' /\ h2[Len(h2)][3] = persons'[i].body_angle
            /\ p2[Len(p2)][1] = now'
            /\ SubSeq(h2, 1, Len(h)) = h /\ SubSeq(p2, 1, Len(p)) = p
    ]_vars

(* ================= the claim on identities ================= *)

(* the identities observed in the step's frame: the slots 0, 1, ... of the
   camera whose frame it is *)
PresentKeys(camera) == {<<camera, i - 1>> : i \in 1..Len(persons')}

(* C30: a frame of camera A changes only the tracks (A, slot) of the slots in
   that frame, and what it reports and records for a slot comes from that
   slot's own track alone: every other track, of another camera or another
   slot, keeps its histories and its cooldown, so no identity's cooldown
   hides another identity's fall.  A track is created when its key is first
   observed, under a new person id, and is the same track from then on. *)
C30_TracksAreIndependent ==
  [][frame_count' # frame_count =>
       \E camera \in PipelineCameras :
         /\ passed_ms'[camera] # passed_ms[camera]
         /\ \A k \in TrackerKeys \ PresentKeys(camera) :
              person_trackers'[k] = person_trackers[k]
         /\ \A i \in 1..Len(persons') :
              LET k == <<camera, i - 1>>
                  own == IF person_trackers[k].person_id = 0
                           THEN PersonTracker(person_trackers'[k].person_id)
                           ELSE person_trackers[k]
              IN /\ persons'[i].id = k
                 /\ person_trackers'[k].person_id # 0
                 /\ person_trackers[k].person_id # 0
                      => person_trackers'[k].person_id = person_trackers[k].person_id
                 /\ person_trackers[k].person_id = 0
                      => \A j \in TrackerKeys :
                           person_trackers'[k].person_id # person_trackers[j].person_id
                 /\ \E pose \in IdentityPoses :
                      LET r == process_pose(own, k, pose, now')
                      IN persons'[i] = r.person /\ person_trackers'[k] = r.tracker
    ]_vars

(* one identity is in the cooldown of a fall confirmed in an earlier frame
   while the frame just processed reports another identity as Falling *)
C30_Witness ==
  \E k1 \in TrackerKeys : \E i \in 1..Len(persons) :
    /\ persons[i].id # k1
    /\ persons[i].state = "FALLING"
    /\ person_trackers[k1].fall_detected_time # NoValue
    /\ person_trackers[k1].fall_detected_time[1] < now
    /\ now < person_trackers[k1].fall_cooldown_until

(* the positions of the detections of `out` whose posture is Falling *)
FallingPositions(out) == {i \in 1..Len(out) : out[i].state = "FALLING"}

(* C31: every DetectionResult that process_frame returns has fall_detected
   true exactly when its list of falling identities is non-empty; that list
   holds the identities of the observations whose posture is Falling, each
   once and no other; and the observations are in the order of the poses the
   landmarker returned, observation i being made from pose i and carrying the
   slot index i - 1 (counted from 0) in its identity *)
C31_FallFlagsAndOrder ==
  [][\A camera \in PipelineCameras :
       \A poses \in {f \in IdentityFrames : Len(f) = Len(persons')} :
         ProcessFrame(camera, poses, 1) =>
           /\ detection_result' # NoValue
           /\ LET res == detection_result'[1]
                  ids == res.fall_person_ids
              IN /\ res.fall_detected <=> ids # <<>>
                 /\ {ids[j] : j \in 1..Len(ids)}
                      = {persons'[i].id : i \in FallingPositions(persons')}
                 /\ Len(ids) = Cardinality(FallingPositions(persons'))
                 /\ \A i \in 1..Len(poses) :
                      /\ persons'[i].id = <<camera, i - 1>>
                      /\ persons'[i].body_angle = poses[i].body_angle]_vars

(* a frame with two persons was processed, the second of them is falling and
   the first is not, and the result names the second alone *)
C31_Witness ==
  /\ detection_result # NoValue
  /\ Len(persons) = 2
  /\ persons[1].state # "FALLING"
  /\ persons[2].state = "FALLING"
  /\ detection_result[1].fall_detected
  /\ detection_result[1].fall_person_ids = <<persons[2].id>>

(* C32: for every keypoint set the landmarker returns, also one with
   coordinates outside [0, 1], the call of process_frame returns a result, and
   x, y, width and height of every bounding box computed in it are within
   [0, 1] *)
C32_BoundingBoxInUnitSquare ==
  pose_landmarks # <<>> =>
    /\ detection_result # NoValue
    /\ Len(bounding_boxes) = Len(pose_landmarks)
    /\ \A i \in 1..Len(bounding_boxes) : BoundingBoxValid(bounding_boxes[i])

(* the successful sends of fall alerts for `camera` are each at least the
   cooldown after the one before *)
AlertsSpaced(sent) ==
  \A i \in 1..Len(sent) : \A j \in 1..Len(sent) :
    i < j => sent[j] - sent[i] >= fall_alert_cooldown * TicksPerSecond

(* C33: for each camera, no two fall alerts are sent successfully less than
   alert_cooldown_seconds apart, also when several stream consumers of the
   camera await send_fall_alert at the same time; and a send that fails
   records no alert, so that no cooldown starts with it *)
C33_AlertsCooldownApart ==
  [][/\ \A camera \in PipelineCameras : AlertsSpaced(alerts_sent'[camera])
     /\ \A c \in Consumers : \A gap \in {now' - now} :
          SendDone(c, "cam1", FALSE, gap) => last_alert_times' = last_alert_times]_vars

(* C34: whenever no thread is between the two assignments of _set_state, the
   error message of a session is set exactly when its state is ERROR, however
   the worker's steps and those of stop() interleave *)
C34_ErrorMessageIffFailed ==
  (lpc # "L104" /\ lstop # "L104") =>
    \A s \in Sessions :
      exists[s] => (error_message[s] # None <=> state[s] = "ERROR")

(* the step is one in which worker w calls _set_state, and with it the
   on_state_change callback *)
CallsSetState(w) ==
  \/ GiveUp(w)
  \/ BeginBackoff(w)
  \/ ConnectBegin(w)
  \/ ConnectOk(w)
  \/ ConnectFail(w)
  \/ BeginStreaming(w)
  \/ Exit(w)

(* stop() has returned on the session and start() was not called since *)
StoppedAndNotRestarted(s) ==
  /\ stopped[s]
  /\ ~running[s]
  /\ \A c \in Callers : csess[c] # s

(* C35: once stop() has returned on a session and until the next start(), the
   session's state is DISCONNECTED and stays so, no connection is opened, and
   neither on_frame nor on_state_change is called, also when the worker did
   not end within the join of stop() *)
C35_QuietAfterStop ==
  [][\A s \in Sessions :
       StoppedAndNotRestarted(s) =>
         /\ state'[s] = "DISCONNECTED"
         /\ capture'[s] # capture[s] => capture'[s] = None
         /\ frames_forwarded'[s] = frames_forwarded[s]
         /\ \A w \in Workers : wsess[w] = s => ~CallsSetState(w)]_vars

(* the postures _classify_state can return (515-536) *)
GeometricPostures == {"STANDING", "SITTING", "LYING", "UNKNOWN"}

(* C36: the posture of every sample in a track's history is the geometric
   one, Standing, Sitting, Lying or Unknown, never Falling; an observation
   that is emitted as Falling is in the history of its track as the Lying
   sample taken at that moment *)
C36_HistoryKeepsGeometricPosture ==
  /\ \A k \in TrackerKeys :
       \A i \in 1..Len(person_trackers[k].state_history) :
         person_trackers[k].state_history[i][2] \in GeometricPostures
  /\ \A i \in 1..Len(persons) :
       persons[i].state = "FALLING" =>
         LET h == person_trackers[persons[i].id].state_history
         IN /\ h # <<>>
            /\ h[Len(h)][1] = now
            /\ h[Len(h)][2] = "LYING"

(* a fall was confirmed in the last frame, after samples of Standing and of
   Unknown posture in the same history *)
C36_Witness ==
  /\ Len(persons) = 1
  /\ persons[1].state = "FALLING"
  /\ LET h == person_trackers[persons[1].id].state_history
     IN /\ h[Len(h)][2] = "LYING"
        /\ \E i \in 1..Len(h) : h[i][2] = "UNKNOWN"
        /\ \E i \in 1..Len(h) : h[i][2] = "STANDING"

(* the detection of identity k in the list `out` is Falling *)
FallingIn(out, k) ==
  \E i \in 1..Len(out) : out[i].id = k /\ out[i].state = "FALLING"

(* C37: with a cooldown of 5 seconds or more, an identity whose fall was
   confirmed is signaled as Falling again only after a Standing or Sitting
   sample taken later than that fall: one who stays lying is not signaled
   again, whether the cooldown has elapsed or not; and the observations of an
   identity in two frames that follow each other are never both Falling *)
C37_NoSecondFallWhileLying ==
  [][\A k \in TrackerKeys :
       FallingIn(persons', k) =>
         /\ person_trackers[k].fall_detected_time # NoValue =>
              \E j \in 1..Len(person_trackers'[k].state_history) :
                LET sample == person_trackers'[k].state_history[j]
                IN /\ sample[2] \in {"STANDING", "SITTING"}
                   /\ sample[1] > person_trackers[k].fall_detected_time[1]
         /\ ~FallingIn(persons, k)]_vars

(* a fall was confirmed, its cooldown has elapsed, the person was seen lying
   since and also in the last frame, never upright, and is not signaled *)
C37_Witness ==
  LET tr == person_trackers[<<"cam1", 0>>]
  IN /\ tr.fall_detected_time # NoValue
     /\ now >= tr.fall_cooldown_until
     /\ Len(persons) = 1
     /\ persons[1].state = "LYING"
     /\ tr.state_history[Len(tr.state_history)][1] = now
     /\ \A j \in 1..Len(tr.state_history) :
          tr.state_history[j][1] > tr.fall_detected_time[1]
            => tr.state_history[j][2] = "LYING"

(* C38: a keypoint set whose body angle is defined and below 50 degrees has
   the midpoint of the shoulders above the midpoint of the hips, and is
   classified as Standing or Sitting; no observation process_frame emits is
   Lying with confidence 0.6 *)
C38_LowAngleIsUpright ==
  /\ \A i \in 1..Len(pose_landmarks) :
       LET body_angle == calculate_body_angle(pose_landmarks[i])
       IN (body_angle # NoValue /\ body_angle[1] < 50) =>
            /\ are_shoulders_above_hips(pose_landmarks[i])
            /\ ShouldersHigher(pose_landmarks[i])
            /\ classify_state(pose_of(pose_landmarks[i]))[1]
                 \in {"STANDING", "SITTING"}
  /\ \A i \in 1..Len(persons) :
       ~(persons[i].state = "LYING" /\ persons[i].confidence = 60)

(* a person bent over by 45 degrees was processed and is emitted as Sitting *)
C38_Witness ==
  /\ Len(pose_landmarks) = 1
  /\ Len(persons) = 1
  /\ calculate_body_angle(pose_landmarks[1]) = Some(45)
  /\ persons[1].state = "SITTING"
  /\ persons[1].confidence = 75

====
